---------------------------- MODULE Spec2Model ----------------------------
(***************************************************************************)
(* A model of the marketplace data layer of FULL-calvo/bolt: the           *)
(* relational schema with its constraints, row-level-security policies and *)
(* triggers (supabase/migrations/*.sql), and the client data-access        *)
(* operations that run against it (src/contexts/AuthContext.tsx and the    *)
(* earlier variant of the same context).                                   *)
(*                                                                         *)
(* Server tables carry the SQL names (profiles, products, orders, ...).    *)
(* Each user has one browser session; its React state is a function over   *)
(* Users (profile, cartItems, userLikes, clientProducts, clientOrders,     *)
(* clientMessages).  Money on the server is decimal(10,2), kept here as an *)
(* integer number of cents; numbers held by the client are JavaScript      *)
(* numbers, kept here as an integer number of thousandths (mills) so that  *)
(* the server's rounding to two fractional digits is a real conversion.    *)
(***************************************************************************)
EXTENDS Integers, Sequences, FiniteSets, TLC

\* ------------------------------------------------------------ universe

Users == {"u1", "u2", "u3"}          \* auth.users ids (auth.uid())
ProductIds == {"pA", "pB"}           \* products.id values

NoUser == "anon"                     \* a request carrying no authenticated user
Null == "null"                       \* SQL NULL / JSON null / undefined
Absent == "absent"                   \* a key missing from raw_user_meta_data

\* Bounds of the model.
MaxDeliveries == 2   \* deliveries of one identity-creation event
MaxRows == 2         \* rows of a table with generated ids
MaxQty == 2          \* quantity a client asks for in one call

\* Error codes of a response (PostgreSQL SQLSTATE, PostgREST, transport).
NoError == "none"
UniqueViolation == "23505"
CheckViolation == "23514"
NotNullViolation == "23502"
RlsViolation == "42501"
NoRowsForSingle == "PGRST116"
NetworkFailure == "network"
NotLoggedIn == "No user logged in"

VARIABLES
  migration,       \* which of the conflicting migrations defined the policies
  identities,      \* auth.users: id -> [full_name, role, email] (signup payload)
  profiles,        \* table profiles, rows in insertion order
  products,        \* table products
  orders,          \* table orders
  messages,        \* table messages
  cart_items,      \* table cart_items
  wishlist,        \* table wishlist
  product_likes,   \* table product_likes
  sellers,         \* table sellers
  stamped,         \* rows written through the REST API: owner columns and updated_at
  now,             \* the server clock (now())
  objects,         \* storage.objects of the bucket avatars
  product_comments, \* table product_comments
  modal,           \* CommentsModal: the product shown, its list, fetches in flight
  session,         \* AuthProvider of one browser: user, view state, fetches in flight
  sellerData,      \* client state: sellerData / seller
  profile,         \* client state: profile[u] (Null or a copy of the row)
  clientProducts,  \* client state: products
  clientOrders,    \* client state: orders
  clientMessages,  \* client state: messages
  cartItems,       \* client state: cartItems
  userLikes,       \* client state: userLikes
  pending,         \* client calls that have read their closure and await the server
  resp,            \* the last response handed to a caller
  deliveries,      \* history: deliveries of each identity-creation event
  tw               \* history: the last toggleWishlist calls of each user

serverVars == <<migration, identities, profiles, products, orders, messages,
                cart_items, wishlist, product_likes, sellers, stamped, now,
                objects, product_comments>>
clientVars == <<profile, clientProducts, clientOrders, clientMessages,
                cartItems, userLikes, pending, sellerData>>
vars == <<serverVars, clientVars, modal, session, resp, deliveries, tw>>

\* A response: the operation, its caller, the row or product it addressed and
\* the error handed to the caller (NoError when it is told of none).
Response(op, caller, target, error) ==
  [op |-> op, caller |-> caller, target |-> target, error |-> error,
   failed |-> "none"]

\* The same response, with the request of the operation that failed recorded
\* beside what the caller was handed (history).
FailedAt(r, step) == [r EXCEPT !.failed = step]

NoResponse == Response("none", NoUser, Null, NoError)

Range(s) == {s[i] : i \in DOMAIN s}

\* gen_random_uuid(): an id no row of the table carries.
FreeIds(tbl) == (1..MaxRows) \ {r.id : r \in tbl}
NewId(tbl) == CHOOSE i \in FreeIds(tbl) : \A j \in FreeIds(tbl) : i <= j

\* ----------------------------------------------------- profiles (schema)

Placeholder == "Usuario"
Roles == {"buyer", "seller"}

ProfileRow(id, full_name, role, email, wl) ==
  [id |-> id, full_name |-> full_name, role |-> role, email |-> email, wishlist |-> wl]

\* The same constraints with the primary key left out.
ProfilesConstraintError_NoPK(tbl, row) ==
  IF row.full_name = Null \/ row.role = Null \/ row.email = Null THEN NotNullViolation
  ELSE IF row.role \notin Roles THEN CheckViolation
  ELSE NoError

\* CREATE TABLE profiles: id PRIMARY KEY, full_name/role/email NOT NULL,
\* CHECK (role IN ('buyer','seller')).
ProfilesConstraintError(tbl, row) ==
  IF row.full_name = Null \/ row.role = Null \/ row.email = Null THEN NotNullViolation
  ELSE IF row.role \notin Roles THEN CheckViolation
  ELSE IF \E i \in DOMAIN tbl : tbl[i].id = row.id THEN UniqueViolation
  ELSE NoError

\* COALESCE without its second argument.
Coalesce_NoDefault(v, default) == v

\* COALESCE(v, default): the first argument that is not null.
Coalesce(v, default) == IF v \in {Absent, Null} THEN default ELSE v

\* handle_new_user(): the row the trigger inserts for auth.users row `new`.
HandleNewUserRow(id, new) ==
  ProfileRow(id, Coalesce(new.full_name, Placeholder), Coalesce(new.role, "buyer"),
             new.email, <<>>)

ProfileOf(tbl, id) == {tbl[i] : i \in {j \in DOMAIN tbl : tbl[j].id = id}}
ProfileRowsOf(tbl, id) == {i \in DOMAIN tbl : tbl[i].id = id}

\* ------------------------------------------------ identity creation

MetaNames == {Absent, "Ana"}
MetaRoles == {Absent, "buyer", "seller", "admin"}
Emails == {Null, "mail"}

EmptyClient == [u \in Users |-> {}]

\* CommentsModal before it was opened: no product shown, useState([]) for the
\* comments, no fetch in flight.
ModalClosed == [product |-> Null, comments |-> {}, fetches |-> {}]

\* AuthProvider before a session exists: useState(null) for user and profile,
\* useState([]) for the orders (held here as the user they were loaded for),
\* no fetchProfile in flight.
SignedOut == [user |-> NoUser, profile |-> Null, orders |-> Null, fetches |-> {}]
NoTw == [u \in Users |-> [prod |-> Null, n |-> 0, ok |-> TRUE,
                          wl |-> <<>>, localWl |-> <<>>, entries |-> {},
                          likes |-> {}, localLikes |-> {}]]

\* Everything outside the identity tables, at rest.
RestIdle ==
  /\ migration = "teal_sea"
  /\ products = {} /\ orders = {} /\ messages = {}
  /\ cart_items = {} /\ wishlist = {} /\ product_likes = {}
  /\ profile = [u \in Users |-> Null]
  /\ clientProducts = EmptyClient /\ clientOrders = EmptyClient
  /\ clientMessages = EmptyClient /\ cartItems = EmptyClient
  /\ userLikes = EmptyClient
  /\ pending = {}
  /\ resp = NoResponse
  /\ tw = NoTw
  /\ sellers = {} /\ sellerData = EmptyClient
  /\ stamped = {} /\ now = 1
  /\ objects = {} /\ product_comments = {}
  /\ modal = ModalClosed /\ session = SignedOut

InitIdentity ==
  /\ RestIdle
  /\ identities = [u \in {} |-> Null]
  /\ profiles = <<>>
  /\ deliveries = [u \in Users |-> 0]

\* INSERT INTO auth.users fires on_auth_user_created AFTER INSERT in the same
\* transaction: a failing profile insert aborts the identity's creation.
SignUp(id, full_name, role, email) ==
  /\ id \notin DOMAIN identities
  /\ LET new == [full_name |-> full_name, role |-> role, email |-> email]
         row == HandleNewUserRow(id, new)
         err == ProfilesConstraintError(profiles, row)
     IN /\ resp' = Response("signUp", id, id, err)
        /\ IF err = NoError
           THEN /\ identities' = [u \in DOMAIN identities \cup {id} |->
                                    IF u = id THEN new ELSE identities[u]]
                /\ profiles' = Append(profiles, row)
                /\ deliveries' = [deliveries EXCEPT ![id] = 1]
           ELSE UNCHANGED <<identities, profiles, deliveries>>
  /\ UNCHANGED <<migration, objects, product_comments, modal, session, products, orders, messages, cart_items, wishlist,
                 product_likes, clientVars, tw,
                 sellers, stamped, now>>

\* The creation event of an existing identity delivered again: the trigger
\* function runs once more for the same auth.users row.
RedeliverCreation(id) ==
  /\ id \in DOMAIN identities
  /\ deliveries[id] < MaxDeliveries
  /\ LET row == HandleNewUserRow(id, identities[id])
         err == ProfilesConstraintError(profiles, row)
     IN /\ resp' = Response("redeliver", id, id, err)
        /\ profiles' = IF err = NoError THEN Append(profiles, row) ELSE profiles
  /\ deliveries' = [deliveries EXCEPT ![id] = @ + 1]
  /\ UNCHANGED <<migration, objects, product_comments, modal, session, identities, products, orders, messages, cart_items,
                 wishlist, product_likes, clientVars, tw,
                 sellers, stamped, now>>

NextIdentity ==
  \/ \E id \in Users, n \in MetaNames, r \in MetaRoles, e \in Emails :
        SignUp(id, n, r, e)
  \/ \E id \in Users : RedeliverCreation(id)

SpecIdentity == InitIdentity /\ [][NextIdentity]_vars

\* C1: every created Identity has exactly one Profile row with its id, also
\* after its creation event was delivered again, and no Profile exists for an
\* id that is no Identity.
C1_ExactlyOneProfile ==
  /\ \A id \in DOMAIN identities : Cardinality(ProfileRowsOf(profiles, id)) = 1
  /\ \A i \in DOMAIN profiles : profiles[i].id \in DOMAIN identities

\* C1 witness: an identity whose creation event was delivered twice and whose
\* retry was answered with the primary key's violation.
C1_Witness ==
  \E id \in DOMAIN identities :
     /\ deliveries[id] >= 2
     /\ resp.op = "redeliver" /\ resp.caller = id /\ resp.error = UniqueViolation
     /\ Cardinality(ProfileRowsOf(profiles, id)) = 1

\* C18: the profile of an identity carries the role and full_name of the
\* signup metadata and the identity's email; a missing role is stored as buyer
\* and a missing full_name as the placeholder; every stored role is buyer or
\* seller.
C18_ProfileFromMetadata ==
  \A i \in DOMAIN profiles :
     /\ profiles[i].role \in Roles
     /\ profiles[i].id \in DOMAIN identities
     /\ LET meta == identities[profiles[i].id]
        IN /\ profiles[i].email = meta.email
           /\ profiles[i].role = (IF meta.role = Absent THEN "buyer" ELSE meta.role)
           /\ profiles[i].full_name =
                (IF meta.full_name = Absent THEN Placeholder ELSE meta.full_name)

\* C18 witness: a signup without role and full_name in its metadata went
\* through and its profile is a buyer named by the placeholder.
C18_Witness ==
  /\ resp.op = "signUp" /\ resp.error = NoError
  /\ resp.caller \in DOMAIN identities
  /\ identities[resp.caller].role = Absent
  /\ identities[resp.caller].full_name = Absent
  /\ \E i \in DOMAIN profiles :
        /\ profiles[i].id = resp.caller
        /\ profiles[i].role = "buyer" /\ profiles[i].full_name = Placeholder

\* ------------------------------------------------------- seeded accounts

\* The signup payloads of the three accounts the other specifications start
\* from, and the profiles handle_new_user made of them.
SeedIdentities ==
  [u \in Users |->
     [full_name |-> "Ana",
      role |-> IF u = "u1" THEN "seller" ELSE IF u = "u2" THEN "buyer" ELSE Absent,
      email |-> "mail"]]

SeedProfiles ==
  <<HandleNewUserRow("u1", SeedIdentities["u1"]),
    HandleNewUserRow("u2", SeedIdentities["u2"]),
    HandleNewUserRow("u3", SeedIdentities["u3"])>>

\* CREATE TABLE sellers: id serial, user_id UNIQUE, store_name NOT NULL.
SellerRow(id, user_id, store_name) ==
  [id |-> id, user_id |-> user_id, store_name |-> store_name]

\* The sellers rows of the seeded accounts: one for each profile with role seller.
SeedSellers ==
  {SellerRow(1, SeedProfiles[i].id, "Loja") :
     i \in {j \in DOMAIN SeedProfiles : SeedProfiles[j].role = "seller"}}

\* The client's copy of a profiles row after fetchProfile.
FetchedProfile(tbl, u) ==
  IF ProfileOf(tbl, u) = {} THEN Null ELSE CHOOSE r \in ProfileOf(tbl, u) : TRUE

Seeded ==
  /\ identities = SeedIdentities
  /\ profiles = SeedProfiles
  /\ deliveries = [u \in Users |-> 1]
  /\ profile = [u \in Users |-> FetchedProfile(SeedProfiles, u)]
  /\ pending = {}
  /\ resp = NoResponse
  /\ tw = NoTw
  /\ sellers = SeedSellers
  /\ sellerData = [u \in Users |-> {r \in SeedSellers : r.user_id = u}]
  /\ stamped = {} /\ now = 1
  /\ objects = {} /\ product_comments = {}
  /\ modal = ModalClosed /\ session = SignedOut

\* ------------------------------------------------------------ decimal(10,2)

\* A JSON number (mills) stored in a decimal(10,2) column (cents): rounded to
\* two fractional digits, half away from zero.  (The ten digits of precision
\* lie far above every amount of the model.)
ToNumeric(mills) ==
  IF mills >= 0 THEN (mills + 5) \div 10 ELSE 0 - ((5 - mills) \div 10)

\* A decimal(10,2) value (cents) as the JSON number the client receives (mills).
ToNumber(cents) == cents * 10

\* ------------------------------------------------------ products (schema)

ProductRow(id, seller_id, price, stock, is_active) ==
  [id |-> id, seller_id |-> seller_id, price |-> price, stock |-> stock,
   is_active |-> is_active]

\* The products constraints with the price check weakened to price >= 0.
ProductsCheckError_Weak(row) ==
  IF ~(row.price >= 0) \/ ~(row.stock >= 0) THEN CheckViolation ELSE NoError

\* CREATE TABLE products: CHECK (price > 0), CHECK (stock >= 0); the checks
\* see the value as stored (cents).
ProductsCheckError(row) ==
  IF ~(row.price > 0) \/ ~(row.stock >= 0) THEN CheckViolation ELSE NoError

\* The owner policy opened to every authenticated caller.
ProductsOwnerPolicy_Anyone(caller, row) == caller # NoUser

\* POLICY "Sellers can manage own products" FOR ALL USING (seller_id = auth.uid()).
ProductsOwnerPolicy(caller, row) == caller # NoUser /\ row.seller_id = caller

\* The SELECT policies of products with the owner's policy alone.
ProductsSelectPolicy_OwnerOnly(caller, row) ==
  caller # NoUser /\ row.seller_id = caller

\* POLICY "Anyone can read active products" FOR SELECT USING (is_active = true);
\* SELECT policies are permissive: a row is read when any of them holds.
ProductsSelectPolicy(caller, row) ==
  caller # NoUser /\ (row.is_active = TRUE \/ ProductsOwnerPolicy(caller, row))

FreeProductIds == ProductIds \ {p.id : p \in products}

ProductById(tbl, id) == {p \in tbl : p.id = id}

\* The product as the client holds it: price as a JSON number.
ClientProduct(row) == [row EXCEPT !.price = ToNumber(row.price)]

\* {...p, ...updates}: the client's merge of a partial update into its copy.
MergeUpdates(p, updates) ==
  [p EXCEPT !.price = IF "price" \in updates.keys THEN updates.price ELSE @,
            !.stock = IF "stock" \in updates.keys THEN updates.stock ELSE @,
            !.is_active = IF "is_active" \in updates.keys THEN updates.is_active ELSE @]

\* The row an UPDATE ... SET updates writes over `row`.
ApplyUpdates(row, updates) ==
  [row EXCEPT !.price = IF "price" \in updates.keys THEN ToNumeric(updates.price) ELSE @,
              !.stock = IF "stock" \in updates.keys THEN updates.stock ELSE @,
              !.is_active = IF "is_active" \in updates.keys THEN updates.is_active ELSE @]

\* INSERT INTO products by `caller`: the policy's check (USING stands in for
\* WITH CHECK), then the constraints on the value as stored.
ProductsInsertError(caller, seller_id, price, stock) ==
  IF ~ProductsOwnerPolicy(caller, [seller_id |-> seller_id]) THEN RlsViolation
  ELSE ProductsCheckError([price |-> ToNumeric(price), stock |-> stock])

\* UPDATE products SET updates WHERE id = id by `caller`: the rows the policy
\* lets the caller update.
ProductsUpdatable(caller, id) ==
  {p \in ProductById(products, id) : ProductsOwnerPolicy(caller, p)}

ProductsUpdateError(caller, id, updates) ==
  IF ProductsUpdatable(caller, id) = {} THEN NoError
  ELSE LET new == ApplyUpdates(CHOOSE p \in ProductsUpdatable(caller, id) : TRUE, updates)
       IN IF ~ProductsOwnerPolicy(caller, new) THEN RlsViolation
          ELSE ProductsCheckError(new)


\* ------------------------------------------------------ products (client)

ClientPrices == {0, 4, 125}    \* JSON numbers a client sends, in mills
Sellers == {"u1", "u2"}         \* the users who issue product writes
ClientStocks == {-1, 0, 1}
UpdateKeys == {{"price"}, {"stock"}, {"is_active"}, {"price", "stock"}}

\* Partial<Product>: the keys present and their values (a key that is not
\* present carries a fixed filler).
ProductUpdates ==
  {upd \in [keys : UpdateKeys, price : ClientPrices,
            stock : ClientStocks, is_active : BOOLEAN] :
     /\ ("price" \notin upd.keys => upd.price = 0)
     /\ ("stock" \notin upd.keys => upd.stock = 0)
     /\ ("is_active" \notin upd.keys => upd.is_active = TRUE)}

\* ON DELETE CASCADE from products(id): orders and cart_items always; wishlist
\* only where its product_id is the foreign key of the first schema.
CascadeProductDelete(ids) ==
  /\ orders' = {o \in orders : o.product_id \notin ids}
  /\ cart_items' = {c \in cart_items : c.product_id \notin ids}
  /\ wishlist' = IF migration = "teal_sea"
                 THEN {w \in wishlist : w.product_id \notin ids}
                 ELSE wishlist

\* addProduct: insert {...productData, seller_id: user.id}, select the row,
\* and on success put it in front of the local list.
AddProduct(u, price, stock, is_active) ==
  /\ FreeProductIds # {}
  /\ \E id \in FreeProductIds :
       LET err == ProductsInsertError(u, u, price, stock)
           row == ProductRow(id, u, ToNumeric(price), stock, is_active)
       IN /\ resp' = Response("addProduct", u, id, err)
          /\ products' = IF err = NoError THEN products \cup {row} ELSE products
          /\ clientProducts' =
               IF err = NoError
               THEN [clientProducts EXCEPT ![u] = @ \cup {ClientProduct(row)}]
               ELSE clientProducts
  /\ UNCHANGED <<migration, objects, product_comments, modal, session, identities, profiles, orders, messages, cart_items,
                 wishlist, product_likes, profile, clientOrders, clientMessages,
                 cartItems, userLikes, pending, deliveries, tw,
                 sellers, stamped, now, sellerData>>

\* updateProduct: update(updates).eq('id', id); with no error the local copy
\* takes the updates as sent.
UpdateProduct(u, id, updates) ==
  LET hit == ProductsUpdatable(u, id)
      err == ProductsUpdateError(u, id, updates)
      new == {ApplyUpdates(p, updates) : p \in hit}
  IN /\ resp' = Response("updateProduct", u, id, err)
     /\ products' = IF err = NoError THEN (products \ hit) \cup new ELSE products
     /\ clientProducts' =
          IF err = NoError
          THEN [clientProducts EXCEPT ![u] =
                  {IF p.id = id THEN MergeUpdates(p, updates) ELSE p : p \in @}]
          ELSE clientProducts
     /\ UNCHANGED <<migration, objects, product_comments, modal, session, identities, profiles, orders, messages, cart_items,
                    wishlist, product_likes, profile, clientOrders, clientMessages,
                    cartItems, userLikes, pending, deliveries, tw,
                    sellers, stamped, now, sellerData>>

\* deleteProduct: delete().eq('id', id); with no error the local copy goes.
DeleteProduct(u, id) ==
  LET hit == ProductsUpdatable(u, id)
  IN /\ resp' = Response("deleteProduct", u, id, NoError)
     /\ products' = products \ hit
     /\ CascadeProductDelete({p.id : p \in hit})
     /\ clientProducts' = [clientProducts EXCEPT ![u] = {p \in @ : p.id # id}]
     /\ UNCHANGED <<migration, objects, product_comments, modal, session, identities, profiles, messages, product_likes,
                    profile, clientOrders, clientMessages, cartItems, userLikes,
                    pending, deliveries, tw,
                    sellers, stamped, now, sellerData>>

\* fetchProducts: the caller's own products, as the select policies show them.
FetchProducts(u) ==
  LET rows == {p \in products : ProductsSelectPolicy(u, p) /\ p.seller_id = u}
  IN /\ resp' = Response("fetchProducts", u, Null, NoError)
     /\ clientProducts' = [clientProducts EXCEPT ![u] = {ClientProduct(p) : p \in rows}]
     /\ UNCHANGED <<serverVars, modal, session, profile, clientOrders, clientMessages, cartItems,
                    userLikes, pending, deliveries, tw,
                    sellerData>>

InitProducts ==
  /\ Seeded
  /\ migration = "teal_sea"
  /\ products = {} /\ orders = {} /\ messages = {}
  /\ cart_items = {} /\ wishlist = {} /\ product_likes = {}
  /\ clientProducts = EmptyClient /\ clientOrders = EmptyClient
  /\ clientMessages = EmptyClient /\ cartItems = EmptyClient
  /\ userLikes = EmptyClient

NextProducts ==
  \/ \E u \in Sellers, pr \in ClientPrices, st \in ClientStocks, a \in BOOLEAN :
        AddProduct(u, pr, st, a)
  \/ \E u \in Sellers, id \in ProductIds, upd \in ProductUpdates :
        UpdateProduct(u, id, upd)
  \/ \E u \in Sellers, id \in ProductIds : DeleteProduct(u, id)
  \/ \E u \in Sellers : FetchProducts(u)

SpecProducts == InitProducts /\ [][NextProducts]_vars

IsProductWrite(r) == r.op \in {"updateProduct", "deleteProduct"}

\* C5: an updateProduct or deleteProduct whose caller is not the product's
\* seller_id leaves every such product row on the server as it was.
C5_NonOwnerLeavesProduct ==
  [][\A p \in products :
        (IsProductWrite(resp') /\ resp'.caller # p.seller_id) => p \in products']_vars

\* C5 witness: a non-owner's update or delete addressed an existing product of
\* another seller and came back.
C5_Witness ==
  /\ IsProductWrite(resp)
  /\ \E p \in products : p.id = resp.target /\ p.seller_id # resp.caller

\* The values a product write would store violate a constraint.
ViolatesProductChecks(upd) ==
  \/ "price" \in upd.keys /\ ToNumeric(upd.price) <= 0
  \/ "stock" \in upd.keys /\ upd.stock < 0

\* C7: every stored product has stock >= 0 and price > 0; an addProduct, or an
\* updateProduct that reaches a row, carrying a violating value is answered
\* with an error; and a product write answered with an error leaves the table
\* as it was.
C7_ProductWritesValid ==
  /\ [](\A p \in products : p.stock >= 0 /\ p.price > 0)
  /\ [][\A pr \in ClientPrices, st \in ClientStocks, a \in BOOLEAN :
          (/\ resp'.op = "addProduct"
           /\ ToNumeric(pr) <= 0 \/ st < 0
           /\ AddProduct(resp'.caller, pr, st, a))
            => (resp'.error # NoError /\ products' = products)]_vars
  /\ [][\A upd \in ProductUpdates :
          (/\ resp'.op = "updateProduct"
           /\ ViolatesProductChecks(upd)
           /\ ProductsUpdatable(resp'.caller, resp'.target) # {}
           /\ UpdateProduct(resp'.caller, resp'.target, upd))
            => (resp'.error # NoError /\ products' = products)]_vars
  /\ [][(resp'.op \in {"addProduct", "updateProduct"} /\ resp'.error # NoError)
         => products' = products]_vars

\* C7 witness: an owner's update was rejected with the check's error and the
\* product it addressed is still stored with valid values.
C7_Witness ==
  /\ resp.op = "updateProduct"
  /\ resp.error = CheckViolation
  /\ \E p \in products : p.id = resp.target /\ p.seller_id = resp.caller /\ p.price > 0

\* ------------------------------------------------------------- messages

\* A row as sendMessage creates it; every message is sent with the same text.
MessageRow(id, from_user_id, to_user_id, is_read) ==
  [id |-> id, from_user_id |-> from_user_id, to_user_id |-> to_user_id,
   message |-> "oi", is_read |-> is_read]

\* POLICY "Users can read own messages" (the same in both schemas).
MessagesSelectPolicy(caller, row) ==
  caller # NoUser /\ (row.from_user_id = caller \/ row.to_user_id = caller)

\* POLICY "Users can send messages" WITH CHECK (from_user_id = auth.uid()).
MessagesInsertPolicy(caller, row) == caller # NoUser /\ row.from_user_id = caller

\* POLICY "Users can update own messages": USING (to_user_id = auth.uid()) in
\* the first schema, USING (from_user_id = auth.uid() OR to_user_id =
\* auth.uid()) in the later one.  Both create the policy under one name on
\* one table, so only one of them is in force.
MessagesUpdatePolicy(caller, row) ==
  /\ caller # NoUser
  /\ IF migration = "teal_sea"
     THEN row.to_user_id = caller
     ELSE row.from_user_id = caller \/ row.to_user_id = caller

\* The rows an UPDATE ... WHERE id = id reaches: those the caller may read and
\* the update policy admits.
MessagesUpdatable(caller, id) ==
  {m \in messages : m.id = id /\ MessagesSelectPolicy(caller, m)
                      /\ MessagesUpdatePolicy(caller, m)}

\* sendMessage: insert with from_user_id: user.id, select the row and put it
\* in front of the local list.
SendMessage(u, to) ==
  /\ FreeIds(messages) # {}
  /\ LET row == MessageRow(NewId(messages), u, to, FALSE)
         err == IF MessagesInsertPolicy(u, row) THEN NoError ELSE RlsViolation
     IN /\ resp' = Response("sendMessage", u, to, err)
        /\ messages' = IF err = NoError THEN messages \cup {row} ELSE messages
        /\ clientMessages' = IF err = NoError
                             THEN [clientMessages EXCEPT ![u] = @ \cup {row}]
                             ELSE clientMessages
  /\ UNCHANGED <<migration, objects, product_comments, modal, session, identities, profiles, products, orders, cart_items,
                 wishlist, product_likes, profile, clientProducts, clientOrders,
                 cartItems, userLikes, pending, deliveries, tw,
                 sellers, stamped, now, sellerData>>

\* markMessageAsRead: update({ is_read: true }).eq('id', messageId); an update
\* that reaches no row is no error, and with no error the local copy is marked.
MarkMessageAsRead(u, id) ==
  LET hit == MessagesUpdatable(u, id)
  IN /\ resp' = Response("markMessageAsRead", u, id, NoError)
     /\ messages' = (messages \ hit) \cup {[m EXCEPT !.is_read = TRUE] : m \in hit}
     /\ clientMessages' =
          [clientMessages EXCEPT ![u] =
             {IF m.id = id THEN [m EXCEPT !.is_read = TRUE] ELSE m : m \in @}]
     /\ UNCHANGED <<migration, objects, product_comments, modal, session, identities, profiles, products, orders, cart_items,
                    wishlist, product_likes, profile, clientProducts, clientOrders,
                    cartItems, userLikes, pending, deliveries, tw,
                    sellers, stamped, now, sellerData>>

\* fetchMessages: the messages the caller sent or received.
FetchMessages(u) ==
  /\ resp' = Response("fetchMessages", u, 0, NoError)
  /\ clientMessages' =
       [clientMessages EXCEPT ![u] = {m \in messages : MessagesSelectPolicy(u, m)}]
  /\ UNCHANGED <<serverVars, modal, session, profile, clientProducts, clientOrders, cartItems,
                 userLikes, pending, deliveries, tw,
                 sellerData>>

InitMessages ==
  /\ Seeded
  /\ migration \in {"teal_sea", "young_dream"}
  /\ products = {} /\ orders = {} /\ messages = {}
  /\ cart_items = {} /\ wishlist = {} /\ product_likes = {}
  /\ clientProducts = EmptyClient /\ clientOrders = EmptyClient
  /\ clientMessages = EmptyClient /\ cartItems = EmptyClient
  /\ userLikes = EmptyClient

NextMessages ==
  \/ \E u \in Users, to \in Users : SendMessage(u, to)
  \/ \E u \in Users, id \in 1..MaxRows : MarkMessageAsRead(u, id)
  \/ \E u \in Users : FetchMessages(u)

SpecMessages == InitMessages /\ [][NextMessages]_vars

\* C4: a message's is_read goes from false to true only in an update issued by
\* its recipient (to_user_id); the sender's or a third party's update leaves
\* it unchanged.
C4_OnlyRecipientMarksRead ==
  [][\A m \in messages, n \in messages' :
        (n.id = m.id /\ ~m.is_read /\ n.is_read) => resp'.caller = m.to_user_id]_vars

\* --------------------------------------------------------------- orders

OrderStatuses == {"pending", "confirmed", "shipped", "delivered", "cancelled"}

OrderRow(id, buyer_id, seller_id, product_id, quantity, unit_price, total_price, status) ==
  [id |-> id, buyer_id |-> buyer_id, seller_id |-> seller_id,
   product_id |-> product_id, quantity |-> quantity, unit_price |-> unit_price,
   total_price |-> total_price, status |-> status]

\* CREATE TABLE orders: CHECK (quantity > 0), CHECK (status IN (...)),
\* product_id REFERENCES products(id).
OrdersConstraintError(row) ==
  IF ~(row.quantity > 0) \/ row.status \notin OrderStatuses THEN CheckViolation
  ELSE IF ProductById(products, row.product_id) = {} THEN "23503"
  ELSE NoError

\* The select policy opened to every authenticated caller.
OrdersSelectPolicy_Anyone(caller, row) == caller # NoUser

\* POLICY "Users can read own orders"
\* USING (buyer_id = auth.uid() OR seller_id = auth.uid()).
OrdersSelectPolicy(caller, row) ==
  caller # NoUser /\ (row.buyer_id = caller \/ row.seller_id = caller)

\* POLICY "Buyers can create orders" WITH CHECK (buyer_id = auth.uid()).
OrdersInsertPolicy(caller, row) == caller # NoUser /\ row.buyer_id = caller

\* POLICY "Sellers can update order status" USING (seller_id = auth.uid()).
OrdersUpdatePolicy(caller, row) == caller # NoUser /\ row.seller_id = caller

\* What a SELECT on orders returns to `caller` before any filter of the query.
OrdersVisible(caller, tbl) == {o \in tbl : OrdersSelectPolicy(caller, o)}

OrdersInsertError(caller, row) ==
  IF ~OrdersInsertPolicy(caller, row) THEN RlsViolation ELSE OrdersConstraintError(row)

OrdersUpdatable(caller, id) ==
  {o \in OrdersVisible(caller, orders) : o.id = id /\ OrdersUpdatePolicy(caller, o)}

\* The statuses a request may name: those of the table's check and a Portuguese
\* label of the client's order type.
StatusInputs == OrderStatuses \cup {"pendente"}

SeedProduct == ProductRow("pA", "u1", ToNumeric(125), 1, TRUE)

\* INSERT INTO orders by `caller`, status left to its default 'pending'.
InsertOrder(caller, buyer, seller, quantity) ==
  /\ FreeIds(orders) # {}
  /\ LET unit == SeedProduct.price
         row == OrderRow(NewId(orders), buyer, seller, SeedProduct.id, quantity,
                         unit, unit * quantity, "pending")
         err == OrdersInsertError(caller, row)
     IN /\ resp' = Response("insertOrder", caller, row.id, err)
        /\ orders' = IF err = NoError THEN orders \cup {row} ELSE orders
  /\ UNCHANGED <<migration, objects, product_comments, modal, session, identities, profiles, products, messages, cart_items,
                 wishlist, product_likes, clientVars, deliveries, tw,
                 sellers, stamped, now>>

\* UPDATE orders SET status = status WHERE id = id by `caller`.
UpdateOrderStatus(caller, id, status) ==
  LET hit == OrdersUpdatable(caller, id)
      new == {[o EXCEPT !.status = status] : o \in hit}
      err == IF hit = {} THEN NoError
             ELSE IF \E o \in new : ~OrdersUpdatePolicy(caller, o) THEN RlsViolation
             ELSE IF \E o \in new : OrdersConstraintError(o) # NoError THEN CheckViolation
             ELSE NoError
  IN /\ resp' = Response("updateOrderStatus", caller, id, err)
     /\ orders' = IF err = NoError THEN (orders \ hit) \cup new ELSE orders
     /\ UNCHANGED <<migration, objects, product_comments, modal, session, identities, profiles, products, messages, cart_items,
                    wishlist, product_likes, clientVars, deliveries, tw,
                    sellers, stamped, now>>

\* fetchOrders: select ... .or(buyer_id.eq.<user>, seller_id.eq.<user>).
FetchOrders(u) ==
  /\ resp' = Response("fetchOrders", u, 0, NoError)
  /\ clientOrders' =
       [clientOrders EXCEPT ![u] =
          {o \in OrdersVisible(u, orders) : o.buyer_id = u \/ o.seller_id = u}]
  /\ UNCHANGED <<serverVars, modal, session, profile, clientProducts, clientMessages, cartItems,
                 userLikes, pending, deliveries, tw,
                 sellerData>>

InitOrders ==
  /\ Seeded
  /\ migration = "teal_sea"
  /\ products = {SeedProduct} /\ orders = {} /\ messages = {}
  /\ cart_items = {} /\ wishlist = {} /\ product_likes = {}
  /\ clientProducts = EmptyClient /\ clientOrders = EmptyClient
  /\ clientMessages = EmptyClient /\ cartItems = EmptyClient
  /\ userLikes = EmptyClient

\* Orders as the policies and constraints let callers write them.
NextOrders ==
  \/ \E c \in Users, b \in Users, s \in Users, q \in 0..1 : InsertOrder(c, b, s, q)
  \/ \E c \in Users, id \in 1..MaxRows, st \in StatusInputs :
        UpdateOrderStatus(c, id, st)

SpecOrders == InitOrders /\ [][NextOrders]_vars

\* Orders placed with the product's seller, and every user's reads of them.
NextOrderReads ==
  \/ \E c \in Users, b \in Users, q \in 0..1 :
        InsertOrder(c, b, SeedProduct.seller_id, q)
  \/ \E u \in Users : FetchOrders(u)

SpecOrderReads == InitOrders /\ [][NextOrderReads]_vars

AllowedTransitions ==
  {<<"pending", "confirmed">>, <<"pending", "cancelled">>,
   <<"confirmed", "shipped">>, <<"shipped", "delivered">>}

\* C2: an order's stored status changes only along pending->confirmed,
\* pending->cancelled, confirmed->shipped and shipped->delivered; any other
\* status update is rejected.
C2_StatusFollowsTransitions ==
  [][\A o \in orders, n \in orders' :
        (n.id = o.id /\ n.status # o.status)
          => <<o.status, n.status>> \in AllowedTransitions]_vars

NotParty(caller, o) == o.buyer_id # caller /\ o.seller_id # caller

\* C6: a caller who is neither buyer nor seller of an order never holds it
\* after a read, a read is answered without error, and what a select returns
\* to such a caller is the same with the order stored and without it.
C6_NonPartyCannotReadOrder ==
  /\ \A u \in Users : \A o \in clientOrders[u] : ~NotParty(u, o)
  /\ \A c \in Users \cup {NoUser} : \A o \in orders :
        NotParty(c, o) =>
          /\ o \notin OrdersVisible(c, orders)
          /\ OrdersVisible(c, orders) = OrdersVisible(c, orders \ {o})
  /\ resp.op = "fetchOrders" => resp.error = NoError

\* C6 witness: a fetchOrders came back without error to a caller while an
\* order of two other users is stored, and the caller's list does not hold it.
C6_Witness ==
  /\ resp.op = "fetchOrders" /\ resp.error = NoError
  /\ \E o \in orders : NotParty(resp.caller, o) /\ o \notin clientOrders[resp.caller]
  /\ clientOrders[resp.caller] # {}

\* ------------------------------------------ cart_items, wishlist, product_likes

MaxPending == 2      \* client calls in flight at once

PairRow(id, user_id, product_id) ==
  [id |-> id, user_id |-> user_id, product_id |-> product_id]

CartRow(id, user_id, product_id, quantity) ==
  [id |-> id, user_id |-> user_id, product_id |-> product_id, quantity |-> quantity]

SamePair(tbl, user_id, product_id) ==
  {r \in tbl : r.user_id = user_id /\ r.product_id = product_id}

\* The uniqueness constraint left out.
PairUniqueError_None(tbl, user_id, product_id) == NoError

\* UNIQUE(user_id, product_id) of cart_items, wishlist and product_likes.
PairUniqueError(tbl, user_id, product_id) ==
  IF SamePair(tbl, user_id, product_id) # {} THEN UniqueViolation ELSE NoError

\* The own-row policy opened to every authenticated caller.
OwnRowPolicy_Anyone(caller, row) == caller # NoUser

\* POLICY "Users can manage own cart" / "Users can manage own wishlist" /
\* "Users can manage own likes": FOR ALL USING (user_id = auth.uid()).
OwnRowPolicy(caller, row) == caller # NoUser /\ row.user_id = caller

\* products(id) as a foreign key.
ProductFkError(product_id) ==
  IF ProductById(products, product_id) = {} THEN "23503" ELSE NoError

FirstError(errs) ==
  IF \E i \in DOMAIN errs : errs[i] # NoError
  THEN errs[CHOOSE i \in DOMAIN errs :
              errs[i] # NoError /\ \A j \in 1..(i - 1) : errs[j] = NoError]
  ELSE NoError

\* INSERT INTO cart_items.
CartInsertError(caller, user_id, product_id, quantity) ==
  FirstError(<<IF OwnRowPolicy(caller, [user_id |-> user_id]) THEN NoError ELSE RlsViolation,
               IF quantity > 0 THEN NoError ELSE CheckViolation,
               ProductFkError(product_id),
               PairUniqueError(cart_items, user_id, product_id)>>)

\* INSERT INTO wishlist: product_id is a foreign key only in the first schema.
WishlistInsertError(caller, user_id, product_id) ==
  FirstError(<<IF OwnRowPolicy(caller, [user_id |-> user_id]) THEN NoError ELSE RlsViolation,
               IF migration = "teal_sea" THEN ProductFkError(product_id) ELSE NoError,
               PairUniqueError(wishlist, user_id, product_id)>>)

\* INSERT INTO product_likes: product_id is free text.
LikesInsertError(caller, user_id, product_id) ==
  FirstError(<<IF OwnRowPolicy(caller, [user_id |-> user_id]) THEN NoError ELSE RlsViolation,
               PairUniqueError(product_likes, user_id, product_id)>>)

\* product:products(*) embedded in a cart row the caller reads.
EmbeddedProduct(caller, product_id) ==
  LET rows == {p \in ProductById(products, product_id) : ProductsSelectPolicy(caller, p)}
  IN IF rows = {} THEN {} ELSE {ClientProduct(CHOOSE p \in rows : TRUE)}

ClientCartItem(caller, row) ==
  [id |-> row.id, user_id |-> row.user_id, product_id |-> row.product_id,
   quantity |-> row.quantity, product |-> EmbeddedProduct(caller, row.product_id)]

\* A call in flight: what it read before its await, and the slot that tells
\* it from an identical call made in the same render.
Call(op, u, product_id, kind, quantity) ==
  [slot |-> CHOOSE n \in (1..MaxPending) \ {c.slot : c \in pending} :
              \A k \in (1..MaxPending) \ {c.slot : c \in pending} : n <= k,
   op |-> op, user |-> u, product |-> product_id, kind |-> kind, quantity |-> quantity]

\* addToCart up to its first await: it reads cartItems of the render it was
\* created in and decides between an update and an insert.
AddToCartBegin(u, product_id, quantity) ==
  /\ Cardinality(pending) < MaxPending
  /\ LET existing == {i \in cartItems[u] : i.product_id = product_id}
         total == IF existing = {} THEN quantity
                  ELSE (CHOOSE i \in existing : TRUE).quantity + quantity
     IN /\ total <= MaxQty
        /\ pending' = pending \cup
             {Call("addToCart", u, product_id,
                   IF existing = {} THEN "insert" ELSE "update", total)}
  /\ UNCHANGED <<serverVars, modal, session, profile, clientProducts, clientOrders, clientMessages,
                 cartItems, userLikes, resp, deliveries, tw,
                 sellerData>>

\* addToCart from its request on: the insert (with the row selected back) or
\* updateCartQuantity's update, and the local merge when no error came back.
AddToCartEnd(c) ==
  /\ c \in pending /\ c.op = "addToCart"
  /\ pending' = pending \ {c}
  /\ IF c.kind = "insert"
     THEN LET err == CartInsertError(c.user, c.user, c.product, c.quantity)
              row == CartRow(NewId(cart_items), c.user, c.product, c.quantity)
          IN    /\ err = NoError => FreeIds(cart_items) # {}
                /\ resp' = Response("addToCart", c.user, c.product, err)
                /\ cart_items' = IF err = NoError THEN cart_items \cup {row} ELSE cart_items
                /\ cartItems' = IF err = NoError
                                THEN [cartItems EXCEPT ![c.user] =
                                        @ \cup {ClientCartItem(c.user, row)}]
                                ELSE cartItems
     ELSE LET hit == {r \in SamePair(cart_items, c.user, c.product) :
                        OwnRowPolicy(c.user, r)}
          IN /\ resp' = Response("updateCartQuantity", c.user, c.product, NoError)
             /\ cart_items' = (cart_items \ hit) \cup
                                {[r EXCEPT !.quantity = c.quantity] : r \in hit}
             /\ cartItems' = [cartItems EXCEPT ![c.user] =
                                {IF i.product_id = c.product
                                 THEN [i EXCEPT !.quantity = c.quantity] ELSE i : i \in @}]
  /\ UNCHANGED <<migration, objects, product_comments, modal, session, identities, profiles, products, orders, messages,
                 wishlist, product_likes, profile, clientProducts, clientOrders,
                 clientMessages, userLikes, deliveries, tw,
                 sellers, stamped, now, sellerData>>

\* removeFromCart: delete the caller's row of the product, then drop it locally.
RemoveFromCart(u, product_id) ==
  LET hit == {r \in SamePair(cart_items, u, product_id) : OwnRowPolicy(u, r)}
  IN /\ resp' = Response("removeFromCart", u, product_id, NoError)
     /\ cart_items' = cart_items \ hit
     /\ cartItems' = [cartItems EXCEPT ![u] = {i \in @ : i.product_id # product_id}]
     /\ UNCHANGED <<migration, objects, product_comments, modal, session, identities, profiles, products, orders, messages,
                    wishlist, product_likes, profile, clientProducts, clientOrders,
                    clientMessages, userLikes, pending, deliveries, tw,
                    sellers, stamped, now, sellerData>>

\* fetchCart: the caller's cart rows with their products.
FetchCart(u) ==
  /\ resp' = Response("fetchCart", u, Null, NoError)
  /\ cartItems' = [cartItems EXCEPT ![u] =
                     {ClientCartItem(u, r) :
                        r \in {x \in cart_items : OwnRowPolicy(u, x) /\ x.user_id = u}}]
  /\ UNCHANGED <<serverVars, modal, session, profile, clientProducts, clientOrders, clientMessages,
                 userLikes, pending, deliveries, tw,
                 sellerData>>

\* INSERT INTO wishlist (user_id, product_id) by `caller`.
InsertWishlist(caller, user_id, product_id) ==
  /\ LET err == WishlistInsertError(caller, user_id, product_id)
         row == PairRow(NewId(wishlist), user_id, product_id)
     IN /\ err = NoError => FreeIds(wishlist) # {}
        /\ resp' = Response("insertWishlist", caller, product_id, err)
        /\ wishlist' = IF err = NoError THEN wishlist \cup {row} ELSE wishlist
  /\ tw' = [tw EXCEPT ![caller] = NoTw[caller]]
  /\ UNCHANGED <<migration, objects, product_comments, modal, session, identities, profiles, products, orders, messages,
                 cart_items, product_likes, clientVars, deliveries,
                 sellers, stamped, now>>

\* DELETE FROM wishlist WHERE user_id = user_id AND product_id = product_id.
DeleteWishlist(caller, user_id, product_id) ==
  LET hit == {r \in SamePair(wishlist, user_id, product_id) : OwnRowPolicy(caller, r)}
  IN /\ resp' = Response("deleteWishlist", caller, product_id, NoError)
     /\ wishlist' = wishlist \ hit
     /\ tw' = [tw EXCEPT ![caller] = NoTw[caller]]
     /\ UNCHANGED <<migration, objects, product_comments, modal, session, identities, profiles, products, orders, messages,
                    cart_items, product_likes, clientVars, deliveries,
                    sellers, stamped, now>>

\* The delete or insert toggleProductLike sends for what it read in userLikes.
\* No error of the request is looked at, so the caller sees none.
LikeRequest(u, product_id, kind) ==
  IF kind = "delete"
  THEN product_likes' = product_likes \
         {r \in SamePair(product_likes, u, product_id) : OwnRowPolicy(u, r)}
  ELSE /\ LikesInsertError(u, u, product_id) = NoError => FreeIds(product_likes) # {}
       /\ product_likes' =
            IF LikesInsertError(u, u, product_id) = NoError
            THEN product_likes \cup {PairRow(NewId(product_likes), u, product_id)}
            ELSE product_likes

\* setUserLikes after the request, whatever it answered.
LikeMerge(u, product_id, kind) ==
  userLikes' = [userLikes EXCEPT ![u] =
                  IF kind = "delete" THEN @ \ {product_id} ELSE @ \cup {product_id}]

\* toggleProductLike up to its await: isLiked = userLikes.has(productId).
ToggleProductLikeBegin(u, product_id) ==
  /\ Cardinality(pending) < MaxPending
  /\ pending' = pending \cup
       {Call("toggleProductLike", u, product_id,
             IF product_id \in userLikes[u] THEN "delete" ELSE "insert", 0)}
  /\ UNCHANGED <<serverVars, modal, session, profile, clientProducts, clientOrders, clientMessages,
                 cartItems, userLikes, resp, deliveries, tw,
                 sellerData>>

\* toggleProductLike from its request on.
ToggleProductLikeEnd(c) ==
  /\ c \in pending /\ c.op = "toggleProductLike"
  /\ pending' = pending \ {c}
  /\ resp' = IF c.kind = "insert" /\ LikesInsertError(c.user, c.user, c.product) # NoError
             THEN FailedAt(Response("toggleProductLike", c.user, c.product, NoError),
                           "product_likes.write")
             ELSE Response("toggleProductLike", c.user, c.product, NoError)
  /\ LikeRequest(c.user, c.product, c.kind)
  /\ LikeMerge(c.user, c.product, c.kind)
  /\ tw' = [tw EXCEPT ![c.user] = NoTw[c.user]]
  /\ UNCHANGED <<migration, objects, product_comments, modal, session, identities, profiles, products, orders, messages,
                 cart_items, wishlist, profile, clientProducts, clientOrders,
                 clientMessages, cartItems, deliveries,
                 sellers, stamped, now, sellerData>>

Shoppers == {"u2"}     \* the users whose sessions shop
ShopProducts == {"pA"}   \* the products they act on

InitPairs ==
  /\ Seeded
  /\ migration = "teal_sea"
  /\ products = {SeedProduct} /\ orders = {} /\ messages = {}
  /\ cart_items = {} /\ wishlist = {} /\ product_likes = {}
  /\ clientProducts = EmptyClient /\ clientOrders = EmptyClient
  /\ clientMessages = EmptyClient /\ cartItems = EmptyClient
  /\ userLikes = EmptyClient

NextPairs ==
  \/ \E u \in Shoppers, p \in ShopProducts : AddToCartBegin(u, p, 1)
  \/ \E c \in pending : AddToCartEnd(c)
  \/ \E u \in Shoppers, p \in ShopProducts : RemoveFromCart(u, p)
  \/ \E u \in Shoppers, p \in ShopProducts : FetchCart(u)
  \/ \E c \in Shoppers, u \in Users, p \in ShopProducts : InsertWishlist(c, u, p)
  \/ \E c \in Shoppers, u \in Users, p \in ShopProducts : DeleteWishlist(c, u, p)
  \/ \E u \in Shoppers, p \in ShopProducts : ToggleProductLikeBegin(u, p)
  \/ \E c \in pending : ToggleProductLikeEnd(c)

SpecPairs == InitPairs /\ [][NextPairs]_vars

AtMostOnePerPair(tbl) ==
  \A r \in tbl, s \in tbl :
     (r.user_id = s.user_id /\ r.product_id = s.product_id) => r = s

\* C8: cart_items, wishlist and product_likes each hold at most one row per
\* (user, product) pair, whatever the order in which add-to-cart, wishlist and
\* like requests reach the server.
C8_OneRowPerPair ==
  /\ AtMostOnePerPair(cart_items)
  /\ AtMostOnePerPair(wishlist)
  /\ AtMostOnePerPair(product_likes)

\* C8 witness: an add-to-cart insert was refused with the uniqueness error
\* while the row of an earlier insert for the pair is stored.
C8_Witness ==
  /\ resp.op = "addToCart" /\ resp.error = UniqueViolation
  /\ Cardinality(SamePair(cart_items, resp.caller, resp.target)) = 1
  /\ wishlist # {} /\ product_likes # {}

\* ------------------------------------------------------------ toggleWishlist

\* currentWishlist.filter(id => id !== productId)
Without(s, x) == SelectSeq(s, LAMBDA e : e # x)

\* A toggle that never takes a product out of the array.
NewWishlist_NoRemove(currentWishlist, product_id) ==
  IF product_id \in Range(currentWishlist)
  THEN currentWishlist
  ELSE Append(currentWishlist, product_id)

\* newWishlist of toggleWishlist for the array it read.
NewWishlist(currentWishlist, product_id) ==
  IF product_id \in Range(currentWishlist)
  THEN Without(currentWishlist, product_id)
  ELSE Append(currentWishlist, product_id)

\* POLICY "Users can update own profile": USING (auth.uid() = id).
ProfilesUpdatePolicy(caller, row) == caller # NoUser /\ row.id = caller

\* UPDATE profiles SET wishlist = wl WHERE id = id, as `caller`.
UpdateProfileWishlist(tbl, caller, id, wl) ==
  [i \in DOMAIN tbl |->
     IF tbl[i].id = id /\ ProfilesUpdatePolicy(caller, tbl[i])
     THEN [tbl[i] EXCEPT !.wishlist = wl] ELSE tbl[i]]

ServerWishlist(u) == (CHOOSE r \in ProfileOf(profiles, u) : TRUE).wishlist
LikedBy(tbl, u) == {r.product_id : r \in {x \in tbl : x.user_id = u}}

\* What a toggle found before it ran.
Snapshot(u, product_id) ==
  [prod |-> product_id, n |-> 1, ok |-> TRUE,
   wl |-> ServerWishlist(u), localWl |-> profile[u].wishlist,
   entries |-> LikedBy(wishlist, u),
   likes |-> LikedBy(product_likes, u), localLikes |-> userLikes[u]]

\* toggleWishlist: write the new array to the caller's profiles row, copy it
\* into the local profile, then toggleProductLike(productId).
ToggleWishlist(u, product_id) ==
  /\ u # NoUser /\ ProfileOf(profiles, u) # {}
  /\ LET newWishlist == NewWishlist(profile[u].wishlist, product_id)
         kind == IF product_id \in userLikes[u] THEN "delete" ELSE "insert"
     IN /\ profiles' = UpdateProfileWishlist(profiles, u, u, newWishlist)
        /\ profile' = [profile EXCEPT ![u].wishlist = newWishlist]
        /\ LikeRequest(u, product_id, kind)
        /\ LikeMerge(u, product_id, kind)
  /\ resp' = Response("toggleWishlist", u, product_id, NoError)
  /\ tw' = [tw EXCEPT ![u] =
              IF @.prod = product_id /\ @.n = 1 THEN [@ EXCEPT !.n = 2]
              ELSE Snapshot(u, product_id)]
  /\ UNCHANGED <<migration, objects, product_comments, modal, session, identities, products, orders, messages, cart_items,
                 wishlist, clientProducts, clientOrders, clientMessages,
                 cartItems, pending, deliveries,
                 sellers, stamped, now, sellerData>>

InitWishlist ==
  /\ Seeded
  /\ migration \in {"teal_sea", "young_dream"}
  /\ products = {SeedProduct} /\ orders = {} /\ messages = {}
  /\ cart_items = {} /\ wishlist = {} /\ product_likes = {}
  /\ clientProducts = EmptyClient /\ clientOrders = EmptyClient
  /\ clientMessages = EmptyClient /\ cartItems = EmptyClient
  /\ userLikes = EmptyClient

NextWishlist ==
  \/ \E u \in Shoppers, p \in ProductIds : ToggleWishlist(u, p)
  \/ \E u \in Shoppers, p \in ProductIds : ToggleProductLikeBegin(u, p)
  \/ \E c \in pending : ToggleProductLikeEnd(c)
  \/ \E u \in Shoppers, p \in ProductIds : InsertWishlist(u, u, p)
  \/ \E u \in Shoppers, p \in ProductIds : DeleteWishlist(u, u, p)

SpecWishlist == InitWishlist /\ [][NextWishlist]_vars

TwiceToggled(u) == tw[u].n = 2 /\ resp.op = "toggleWishlist" /\ resp.caller = u

C10_ArrayMatchesEntries ==
  resp.op = "toggleWishlist" =>
     (resp.target \in Range(ServerWishlist(resp.caller))
        <=> SamePair(wishlist, resp.caller, resp.target) # {})

\* ------------------------------------------------------------------ checkout

\* clearCart: delete the caller's cart rows; with no error, empty the local cart.
ClearCartRows(u) == {r \in cart_items : r.user_id = u /\ OwnRowPolicy(u, r)}

\* products.find(p => p.id === productId) ||
\* cartItems.find(ci => ci.product_id === productId)?.product
ProductFor(u, product_id) ==
  LET own == {p \in clientProducts[u] : p.id = product_id}
      inCart == UNION {ci.product : ci \in {x \in cartItems[u] : x.product_id = product_id}}
  IN IF own # {} THEN own ELSE inCart

\* The objects createOrder pushes, in the order of `items`; an item whose
\* product is not found is skipped.
OrderDrafts(u, items) ==
  LET found == SelectSeq(items, LAMBDA it : ProductFor(u, it.productId) # {})
  IN [i \in DOMAIN found |->
        LET product == CHOOSE p \in ProductFor(u, found[i].productId) : TRUE
        IN [buyer_id |-> u, seller_id |-> product.seller_id,
            product_id |-> found[i].productId,
            quantity |-> found[i].quantity,
            unit_price |-> product.price,
            total_price |-> product.price * found[i].quantity]]

NthFree(tbl, n) ==
  CHOOSE i \in FreeIds(tbl) : Cardinality({j \in FreeIds(tbl) : j < i}) = n - 1

\* The rows INSERT INTO orders stores for the drafts: both prices become
\* decimal(10,2), status takes its default.
OrderRowsOf(drafts) ==
  {OrderRow(NthFree(orders, i), drafts[i].buyer_id, drafts[i].seller_id,
            drafts[i].product_id, drafts[i].quantity,
            ToNumeric(drafts[i].unit_price), ToNumeric(drafts[i].total_price),
            "pending") : i \in DOMAIN drafts}

\* One statement inserts all rows or none.
BulkInsertError(caller, rows) ==
  IF \E r \in rows : ~OrdersInsertPolicy(caller, r) THEN RlsViolation
  ELSE IF \E r \in rows : OrdersConstraintError(r) = CheckViolation THEN CheckViolation
  ELSE IF \E r \in rows : OrdersConstraintError(r) # NoError THEN "23503"
  ELSE NoError

\* createOrder: build the rows from the local products and cart, insert them
\* in one request and, with no error, fetchOrders and clearCart.
CreateOrder(u, items) ==
  /\ u # NoUser
  /\ LET drafts == OrderDrafts(u, items)
     IN /\ Len(drafts) <= Cardinality(FreeIds(orders))
        /\ LET rows == OrderRowsOf(drafts)
               err == BulkInsertError(u, rows)
           IN /\ resp' = Response("createOrder", u, Null, err)
              /\ orders' = IF err = NoError THEN orders \cup rows ELSE orders
              /\ clientOrders' =
                   IF err = NoError
                   THEN [clientOrders EXCEPT ![u] =
                           {o \in OrdersVisible(u, orders \cup rows) :
                              o.buyer_id = u \/ o.seller_id = u}]
                   ELSE clientOrders
              /\ cart_items' = IF err = NoError THEN cart_items \ ClearCartRows(u)
                               ELSE cart_items
              /\ cartItems' = IF err = NoError THEN [cartItems EXCEPT ![u] = {}]
                              ELSE cartItems
  /\ UNCHANGED <<migration, objects, product_comments, modal, session, identities, profiles, products, messages, wishlist,
                 product_likes, profile, clientProducts, clientMessages, userLikes,
                 pending, deliveries, tw,
                 sellers, stamped, now, sellerData>>

\* The catalogue the client is built with (data/mockData).
MockProducts == {[id |-> SeedProduct.id, seller_id |-> SeedProduct.seller_id]}

\* status of the order data addOrder takes.
OrderLabels == {"pendente", "processando", "enviado", "entregue", "cancelado"}

\* price_paid / quantity as decimal(10,2): mills over a count, to the nearest cent.
UnitPriceOf(price_paid, quantity) ==
  (2 * price_paid + 10 * quantity) \div (20 * quantity)

\* addOrder: one row with unit_price: price_paid / quantity, total_price:
\* price_paid and the status it was given; an error is thrown, otherwise the
\* row goes in front of the local orders.
AddOrder(u, product_id, quantity, price_paid, status) ==
  /\ u # NoUser
  /\ \E product \in {p \in MockProducts : p.id = product_id} :
       /\ FreeIds(orders) # {}
       /\ LET row == OrderRow(NewId(orders), u, product.seller_id, product_id, quantity,
                              UnitPriceOf(price_paid, quantity), ToNumeric(price_paid),
                              status)
              err == OrdersInsertError(u, row)
          IN /\ resp' = Response("addOrder", u, Null, err)
             /\ orders' = IF err = NoError THEN orders \cup {row} ELSE orders
             /\ clientOrders' = IF err = NoError
                                THEN [clientOrders EXCEPT ![u] = @ \cup {row}]
                                ELSE clientOrders
  /\ UNCHANGED <<migration, objects, product_comments, modal, session, identities, profiles, products, messages, cart_items,
                 wishlist, product_likes, profile, clientProducts, clientMessages,
                 cartItems, userLikes, pending, deliveries, tw,
                 sellers, stamped, now, sellerData>>

Buyers == {"u1", "u2"}     \* the users who check out

Items == [productId : ProductIds, quantity : 1..MaxQty]
ItemLists ==
  {<<i>> : i \in Items} \cup
  {l \in {<<i, j>> : i \in Items, j \in Items} : l[1].productId # l[2].productId}

PriceUpdates == {upd \in ProductUpdates : upd.keys = {"price"}}

\* Sessions after login: the seller's client holds its product.
InitCheckout ==
  /\ Seeded
  /\ migration = "teal_sea"
  /\ products = {SeedProduct} /\ orders = {} /\ messages = {}
  /\ cart_items = {} /\ wishlist = {} /\ product_likes = {}
  /\ clientProducts = [u \in Users |->
                         {ClientProduct(p) : p \in {x \in products : x.seller_id = u}}]
  /\ clientOrders = EmptyClient
  /\ clientMessages = EmptyClient /\ cartItems = EmptyClient
  /\ userLikes = EmptyClient

NextCheckout ==
  \/ \E upd \in PriceUpdates : UpdateProduct(SeedProduct.seller_id, SeedProduct.id, upd)
  \/ \E u \in Shoppers, p \in ProductIds, q \in 1..MaxQty : AddToCartBegin(u, p, q)
  \/ \E c \in pending : AddToCartEnd(c)
  \/ \E u \in Buyers, items \in ItemLists : CreateOrder(u, items)
  \/ \E u \in Shoppers, p \in ProductIds, q \in 1..MaxQty, paid \in ClientPrices,
        st \in OrderLabels : AddOrder(u, p, q, paid, st)

SpecCheckout == InitCheckout /\ [][NextCheckout]_vars

\* C3: every orders row checkout created has total_price = unit_price *
\* quantity, both prices as stored with two fractional digits.
C3_TotalIsUnitTimesQuantity ==
  \A o \in orders : o.total_price = o.unit_price * o.quantity

\* ------------------------------------------------------- role transitions

\* POLICY "Sellers can manage own store": FOR ALL USING (user_id = auth.uid()).
SellersOwnerPolicy(caller, row) == caller # NoUser /\ row.user_id = caller

\* INSERT INTO sellers: the policy, store_name NOT NULL, user_id UNIQUE.
SellersInsertError(caller, user_id, store_name) ==
  FirstError(<<IF SellersOwnerPolicy(caller, [user_id |-> user_id]) THEN NoError
               ELSE RlsViolation,
               IF store_name \in {Absent, Null} THEN NotNullViolation ELSE NoError,
               IF \E r \in sellers : r.user_id = user_id THEN UniqueViolation
               ELSE NoError>>)

\* UPDATE profiles SET role = role WHERE id = id, as `caller`.
UpdateProfileRole(tbl, caller, id, role) ==
  [i \in DOMAIN tbl |->
     IF tbl[i].id = id /\ ProfilesUpdatePolicy(caller, tbl[i])
     THEN [tbl[i] EXCEPT !.role = role] ELSE tbl[i]]

\* DELETE FROM sellers WHERE user_id = user_id, as `caller`.
SellersAfterDelete(caller, user_id) ==
  {r \in sellers : ~(r.user_id = user_id /\ SellersOwnerPolicy(caller, r))}

\* The requests of the two-step operations, and "none" for a run in which
\* the network fails none of them.
RoleFaults == {"none", "profiles.update", "sellers.write"}

\* The error a request answers with: the network's when it fails there,
\* otherwise the server's.
RequestError(fault, step, serverError) ==
  IF fault = step THEN NetworkFailure ELSE serverError

\* The two steps of a switch to seller: update profiles.role, then insert
\* the sellers row.  `e1`, `e2` are the errors of the two requests.
SellerSwitch(op, u, store_name, fault, e1, e2) ==
  /\ profiles' = IF e1 = NoError THEN UpdateProfileRole(profiles, u, u, "seller")
                 ELSE profiles
  /\ sellers' = IF e1 = NoError /\ e2 = NoError
                THEN sellers \cup {SellerRow(NewId(sellers), u, store_name)}
                ELSE sellers
  /\ (e1 = NoError /\ e2 = NoError) => FreeIds(sellers) # {}
  /\ profile' = IF e1 = NoError /\ e2 = NoError
                THEN [profile EXCEPT ![u].role = "seller"] ELSE profile
  /\ sellerData' = IF e1 = NoError /\ e2 = NoError
                   THEN [sellerData EXCEPT ![u] = {SellerRow(NewId(sellers), u, store_name)}]
                   ELSE sellerData
  /\ resp' = IF e1 # NoError
             THEN FailedAt(Response(op, u, u, e1), "profiles.update")
             ELSE IF e2 # NoError
             THEN FailedAt(Response(op, u, u, e2), "sellers.write")
             ELSE Response(op, u, u, NoError)

\* becomeSeller: both errors are caught and returned as { data: null, error }.
BecomeSeller(u, storeName, fault) ==
  /\ u \in DOMAIN identities
  /\ SellerSwitch("becomeSeller", u, storeName, fault,
                  RequestError(fault, "profiles.update", NoError),
                  RequestError(fault, "sellers.write",
                               SellersInsertError(u, u, storeName)))
  /\ UNCHANGED <<migration, objects, product_comments, modal, session, identities, products, orders, messages, cart_items,
                 wishlist, product_likes, stamped, now, clientProducts,
                 clientOrders, clientMessages, cartItems, userLikes, pending,
                 deliveries, tw>>

\* createSellerProfile: the earlier variant; storeData is a Partial<Seller>,
\* so store_name may be missing.  It returns { error } of the step that failed.
CreateSellerProfile(u, store_name, fault) ==
  /\ u \in DOMAIN identities
  /\ SellerSwitch("createSellerProfile", u, store_name, fault,
                  RequestError(fault, "profiles.update", NoError),
                  RequestError(fault, "sellers.write",
                               SellersInsertError(u, u, store_name)))
  /\ UNCHANGED <<migration, objects, product_comments, modal, session, identities, products, orders, messages, cart_items,
                 wishlist, product_likes, stamped, now, clientProducts,
                 clientOrders, clientMessages, cartItems, userLikes, pending,
                 deliveries, tw>>

\* The two steps of a switch back to buyer: update profiles.role, then delete
\* the sellers row.
BuyerSwitch(op, u, fault, mergesFirst) ==
  LET e1 == RequestError(fault, "profiles.update", NoError)
      e2 == RequestError(fault, "sellers.write", NoError)
      done == e1 = NoError /\ e2 = NoError
  IN /\ profiles' = IF e1 = NoError THEN UpdateProfileRole(profiles, u, u, "buyer")
                    ELSE profiles
     /\ sellers' = IF done THEN SellersAfterDelete(u, u) ELSE sellers
     /\ profile' = IF done \/ (mergesFirst /\ e1 = NoError)
                   THEN [profile EXCEPT ![u].role = "buyer"] ELSE profile
     /\ sellerData' = IF done THEN [sellerData EXCEPT ![u] = {}] ELSE sellerData
     /\ clientProducts' = IF done THEN [clientProducts EXCEPT ![u] = {}]
                          ELSE clientProducts
     /\ resp' = IF e1 # NoError
                THEN FailedAt(Response(op, u, u, e1), "profiles.update")
                ELSE IF e2 # NoError
                THEN FailedAt(Response(op, u, u, e2), "sellers.write")
                ELSE Response(op, u, u, NoError)

\* backToBuyer: updateProfile({ role: 'buyer' }) merges the role into the
\* local profile as soon as its update succeeded; either error is thrown.
BackToBuyer(u, fault) ==
  /\ u \in DOMAIN identities
  /\ BuyerSwitch("backToBuyer", u, fault, TRUE)
  /\ UNCHANGED <<migration, objects, product_comments, modal, session, identities, products, orders, messages, cart_items,
                 wishlist, product_likes, stamped, now, clientOrders,
                 clientMessages, cartItems, userLikes, pending, deliveries, tw>>

\* switchToNormalUser: the earlier variant; the local state changes only when
\* the delete succeeded, then fetchCart reloads the cart.
SwitchToNormalUser(u, fault) ==
  /\ u \in DOMAIN identities
  /\ BuyerSwitch("switchToNormalUser", u, fault, FALSE)
  /\ cartItems' = IF fault = "none"
                  THEN [cartItems EXCEPT ![u] =
                          {ClientCartItem(u, r) :
                             r \in {x \in cart_items : OwnRowPolicy(u, x)}}]
                  ELSE cartItems
  /\ UNCHANGED <<migration, objects, product_comments, modal, session, identities, products, orders, messages, cart_items,
                 wishlist, product_likes, stamped, now, clientOrders,
                 clientMessages, userLikes, pending, deliveries, tw>>

RoleUsers == {"u1", "u2"}          \* the accounts that exist and are signed in
StoreNames == {Absent, "Loja"}     \* storeData.store_name

\* Two accounts signed in with their profile loaded (a seller with its store,
\* a buyer); the third identity does not exist yet.
InitRoles ==
  /\ migration = "teal_sea"
  /\ identities = [u \in RoleUsers |-> SeedIdentities[u]]
  /\ profiles = SelectSeq(SeedProfiles, LAMBDA r : r.id \in RoleUsers)
  /\ deliveries = [u \in Users |-> IF u \in RoleUsers THEN 1 ELSE 0]
  /\ profile = [u \in Users |-> FetchedProfile(profiles, u)]
  /\ sellers = SeedSellers
  /\ sellerData = [u \in Users |-> {r \in SeedSellers : r.user_id = u}]
  /\ stamped = {} /\ now = 1
  /\ objects = {} /\ product_comments = {}
  /\ modal = ModalClosed /\ session = SignedOut
  /\ products = {} /\ orders = {} /\ messages = {}
  /\ cart_items = {} /\ wishlist = {} /\ product_likes = {}
  /\ clientProducts = EmptyClient /\ clientOrders = EmptyClient
  /\ clientMessages = EmptyClient /\ cartItems = EmptyClient
  /\ userLikes = EmptyClient
  /\ pending = {} /\ resp = NoResponse /\ tw = NoTw

NextRoles ==
  \/ \E id \in Users, r \in {Absent, "buyer", "seller"} : SignUp(id, "Ana", r, "mail")
  \/ \E u \in RoleUsers, f \in RoleFaults : BecomeSeller(u, "Loja", f)
  \/ \E u \in RoleUsers, n \in StoreNames, f \in RoleFaults : CreateSellerProfile(u, n, f)
  \/ \E u \in RoleUsers, f \in RoleFaults : BackToBuyer(u, f)
  \/ \E u \in RoleUsers, f \in RoleFaults : SwitchToNormalUser(u, f)

SpecRoles == InitRoles /\ [][NextRoles]_vars

HasSellerRow(id) == \E r \in sellers : r.user_id = id

RoleOps == {"becomeSeller", "createSellerProfile", "backToBuyer", "switchToNormalUser"}

\* C11: between operations, a Profile has role seller exactly when a sellers
\* row exists for it.
C11_RoleMatchesSellerRow ==
  \A i \in DOMAIN profiles :
     profiles[i].role = "seller" <=> HasSellerRow(profiles[i].id)

\* C12: a role transition whose second step (the sellers insert or delete)
\* failed leaves Profile.role and the sellers rows as they were before it.
C12_FailedSecondStepRestores ==
  [][(resp'.op \in RoleOps /\ resp'.failed = "sellers.write")
       => (profiles' = profiles /\ sellers' = sellers)]_vars

\* ------------------------------------------------------- failing requests

\* toggleWishlist when one of its requests fails.  A failed profiles update is
\* thrown, caught and logged: nothing changes.  A failed product_likes request
\* is not looked at: the array is already written and userLikes is updated as
\* if the request had succeeded.  Either way the call returns undefined.
ToggleWishlistFails(u, product_id, step) ==
  /\ u # NoUser /\ ProfileOf(profiles, u) # {}
  /\ LET newWishlist == NewWishlist(profile[u].wishlist, product_id)
         kind == IF product_id \in userLikes[u] THEN "delete" ELSE "insert"
     IN IF step = "profiles.update"
        THEN UNCHANGED <<profiles, profile, userLikes>>
        ELSE /\ profiles' = UpdateProfileWishlist(profiles, u, u, newWishlist)
             /\ profile' = [profile EXCEPT ![u].wishlist = newWishlist]
             /\ LikeMerge(u, product_id, kind)
  /\ resp' = FailedAt(Response("toggleWishlist", u, product_id, NoError), step)
  /\ tw' = [tw EXCEPT ![u] = NoTw[u]]
  /\ UNCHANGED <<migration, objects, product_comments, modal, session, identities, products, orders, messages, cart_items,
                 wishlist, product_likes, sellers, stamped, now, clientProducts,
                 clientOrders, clientMessages, cartItems, pending, sellerData,
                 deliveries>>

\* toggleProductLike when its request fails: the answer is not looked at and
\* userLikes is updated as if the request had succeeded.
ToggleProductLikeEndFails(c) ==
  /\ c \in pending /\ c.op = "toggleProductLike"
  /\ pending' = pending \ {c}
  /\ resp' = FailedAt(Response("toggleProductLike", c.user, c.product, NoError),
                      "product_likes.write")
  /\ LikeMerge(c.user, c.product, c.kind)
  /\ tw' = [tw EXCEPT ![c.user] = NoTw[c.user]]
  /\ UNCHANGED <<serverVars, modal, session, profile, clientProducts, clientOrders, clientMessages,
                 cartItems, sellerData, deliveries>>

\* The selects of fetchProfile, in the order it sends them.
FetchSteps == <<"profiles.select", "sellers.select", "product_likes.select",
                "orders.select", "messages.select">>

StepIndex(step) == CHOOSE i \in DOMAIN FetchSteps : FetchSteps[i] = step

\* fetchProfile: load the profile, for a seller its store and products, then
\* the likes, orders and messages.  `fault` is the select the network fails
\* ("none": it fails none).  The first error is thrown into a catch that
\* empties userLikes and returns nothing; what was set before it stays.
FetchProfile(u, fault) ==
  /\ u # NoUser
  /\ LET noRow == ProfileOf(profiles, u) = {}
         stop == IF fault # "none" THEN StepIndex(fault)
                 ELSE IF noRow THEN 1 ELSE Len(FetchSteps) + 1
         got(step) == StepIndex(step) < stop
         isSeller == ~noRow /\ FetchedProfile(profiles, u).role = "seller"
         store == {r \in sellers : r.user_id = u}
     IN /\ ~noRow \/ fault \in {"none", "profiles.select"}
        /\ (fault = "sellers.select") => isSeller
        /\ profile' = IF got("profiles.select")
                      THEN [profile EXCEPT ![u] = FetchedProfile(profiles, u)]
                      ELSE profile
        /\ sellerData' = IF got("sellers.select") /\ isSeller /\ store # {}
                         THEN [sellerData EXCEPT ![u] = store] ELSE sellerData
        /\ clientProducts' =
             IF got("sellers.select") /\ isSeller /\ store # {}
             THEN [clientProducts EXCEPT ![u] =
                     {ClientProduct(p) : p \in {x \in products : x.seller_id = u}}]
             ELSE clientProducts
        /\ userLikes' = [userLikes EXCEPT ![u] =
                           IF stop > Len(FetchSteps) THEN LikedBy(product_likes, u)
                           ELSE {}]
        /\ clientOrders' =
             IF got("orders.select")
             THEN [clientOrders EXCEPT ![u] =
                     {o \in OrdersVisible(u, orders) : o.buyer_id = u \/ o.seller_id = u}]
             ELSE clientOrders
        /\ clientMessages' =
             IF got("messages.select")
             THEN [clientMessages EXCEPT ![u] =
                     {m \in messages : MessagesSelectPolicy(u, m)}]
             ELSE clientMessages
        /\ resp' = IF stop <= Len(FetchSteps)
                   THEN FailedAt(Response("fetchProfile", u, u, NoError), FetchSteps[stop])
                   ELSE Response("fetchProfile", u, u, NoError)
  /\ tw' = [tw EXCEPT ![u] = NoTw[u]]
  /\ UNCHANGED <<serverVars, modal, session, cartItems, pending, deliveries>>

FetchFaults == {"none"} \cup Range(FetchSteps)

NextFaults ==
  \/ \E u \in Shoppers, p \in ShopProducts : ToggleWishlist(u, p)
  \/ \E u \in Shoppers, p \in ShopProducts,
        step \in {"profiles.update", "product_likes.write"} :
        ToggleWishlistFails(u, p, step)
  \/ \E u \in Shoppers, p \in ShopProducts : ToggleProductLikeBegin(u, p)
  \/ \E c \in pending : ToggleProductLikeEnd(c)
  \/ \E c \in pending : ToggleProductLikeEndFails(c)
  \/ \E u \in Sellers, f \in FetchFaults : FetchProfile(u, f)

SpecFaults == InitWishlist /\ [][NextFaults]_vars

\* C19: an operation one of whose requests failed hands an error to its
\* caller (returned or thrown); it never completes as a success.
C19_FailuresReachCaller ==
  resp.failed # "none" => resp.error # NoError

\* --------------------------------------------------- multi-step operations

\* createOrder when the insert succeeds and clearCart's delete fails: the rows
\* are stored and fetched, the cart stays, and { error } carries the insert's
\* error only, which is null.
CreateOrderClearFails(u, items) ==
  /\ u # NoUser
  /\ LET drafts == OrderDrafts(u, items)
     IN /\ Len(drafts) <= Cardinality(FreeIds(orders))
        /\ LET rows == OrderRowsOf(drafts)
           IN /\ BulkInsertError(u, rows) = NoError
              /\ orders' = orders \cup rows
              /\ clientOrders' =
                   [clientOrders EXCEPT ![u] =
                      {o \in OrdersVisible(u, orders \cup rows) :
                         o.buyer_id = u \/ o.seller_id = u}]
  /\ resp' = FailedAt(Response("createOrder", u, Null, NoError), "cart_items.delete")
  /\ UNCHANGED <<migration, objects, product_comments, modal, session, identities, profiles, products, messages, cart_items,
                 wishlist, product_likes, sellers, stamped, now, profile,
                 clientProducts, clientMessages, cartItems, userLikes, pending,
                 sellerData, deliveries, tw>>

NextSteps ==
  \/ \E u \in Shoppers, p \in ShopProducts : AddToCartBegin(u, p, 1)
  \/ \E c \in pending : AddToCartEnd(c)
  \/ \E u \in Shoppers, p \in ShopProducts, q \in 1..MaxQty :
        CreateOrder(u, <<[productId |-> p, quantity |-> q]>>)
  \/ \E u \in Shoppers, p \in ShopProducts, q \in 1..MaxQty :
        CreateOrderClearFails(u, <<[productId |-> p, quantity |-> q]>>)
  \/ \E u \in Shoppers, f \in RoleFaults : BecomeSeller(u, "Loja", f)
  \/ \E u \in Shoppers, f \in RoleFaults : BackToBuyer(u, f)

SpecSteps == InitCheckout /\ [][NextSteps]_vars

\* C20: createOrder and the role switches hand their caller an error whenever
\* one of their steps failed, also when an earlier step had succeeded.
C20_FailedStepIsReported ==
  (resp.op \in RoleOps \cup {"createOrder"} /\ resp.failed # "none")
     => resp.error # NoError

\* ------------------------------------------- writes through the REST API

MaxTime == 2         \* the last instant of the server clock
MaxStamped == 1      \* rows written through the REST API

\* The tables with an updated_at column and a handle_updated_at trigger.
StampedTables == {"profiles", "sellers", "products", "orders"}

\* The tables holding rows of a user, each with its ownership column:
\* profiles.id, sellers.user_id, products.seller_id, orders.buyer_id,
\* messages.from_user_id and user_id of the others.
OwnedTables ==
  StampedTables \cup
    {"messages", "cart_items", "wishlist", "product_likes", "product_comments"}

\* The tables naming a second user: orders.seller_id, messages.to_user_id.
PartyTables == {"orders", "messages"}

Omitted == 0 - 1     \* updated_at left out of a payload, or no such column
ClientTime == 0      \* a time a client writes into a payload

\* A stored row reduced to its table, id, ownership column, second user and
\* updated_at.
RawRow(tbl, id, owner, party, updated_at) ==
  [tbl |-> tbl, id |-> id, owner |-> owner, party |-> party,
   updated_at |-> updated_at]

\* The INSERT policy (WITH CHECK) of each table.
InsertPolicy(tbl, caller, row) ==
  CASE tbl = "profiles" -> caller # NoUser /\ row.owner = caller
    [] tbl = "sellers" -> SellersOwnerPolicy(caller, [user_id |-> row.owner])
    [] tbl = "products" -> ProductsOwnerPolicy(caller, [seller_id |-> row.owner])
    [] tbl = "orders" -> OrdersInsertPolicy(caller, [buyer_id |-> row.owner])
    [] tbl = "messages" -> MessagesInsertPolicy(caller, [from_user_id |-> row.owner])
    [] tbl = "product_comments" -> caller # NoUser /\ row.owner = caller
    [] OTHER -> OwnRowPolicy(caller, [user_id |-> row.owner])

\* The UPDATE policy of each table: its USING, which is also the check of the
\* new row where no WITH CHECK is written.
UpdatePolicy(tbl, caller, row) ==
  CASE tbl = "profiles" -> ProfilesUpdatePolicy(caller, [id |-> row.owner])
    [] tbl = "sellers" -> SellersOwnerPolicy(caller, [user_id |-> row.owner])
    [] tbl = "products" -> ProductsOwnerPolicy(caller, [seller_id |-> row.owner])
    [] tbl = "orders" -> OrdersUpdatePolicy(caller, [seller_id |-> row.party])
    [] tbl = "messages" ->
         MessagesUpdatePolicy(caller, [from_user_id |-> row.owner,
                                       to_user_id |-> row.party])
    [] tbl = "product_comments" -> caller # NoUser /\ row.owner = caller
    [] OTHER -> OwnRowPolicy(caller, [user_id |-> row.owner])

\* updated_at DEFAULT now(): what an INSERT stores for the payload's value.
InsertedUpdatedAt(tbl, supplied) ==
  IF tbl \notin StampedTables THEN Omitted
  ELSE IF supplied = Omitted THEN now ELSE supplied

\* handle_updated_at() BEFORE UPDATE: NEW.updated_at = now().
HandleUpdatedAt(tbl, new) ==
  IF tbl \in StampedTables THEN [new EXCEPT !.updated_at = now] ELSE new

WellFormedWrite(tbl, party, supplied) ==
  /\ (tbl \in PartyTables \/ party = NoUser)
  /\ (tbl \in PartyTables => party # NoUser)
  /\ (tbl \in StampedTables \/ supplied = Omitted)

\* POST /rest/v1/<tbl> as `caller`: a row naming `owner` in its ownership
\* column, with the payload's updated_at.  The response records the identity
\* the request named.
RawInsert(caller, tbl, owner, party, supplied) ==
  /\ WellFormedWrite(tbl, party, supplied)
  /\ LET draft == RawRow(tbl, 0, owner, party, InsertedUpdatedAt(tbl, supplied))
         err == IF InsertPolicy(tbl, caller, draft) THEN NoError ELSE RlsViolation
         free == (1..MaxStamped) \ {r.id : r \in stamped}
     IN /\ err = NoError => free # {}
        /\ resp' = Response("insert", caller, owner, err)
        /\ stamped' = IF err = NoError
                         THEN stamped \cup {[draft EXCEPT !.id = CHOOSE i \in free : \A j \in free : i <= j]}
                         ELSE stamped
  /\ UNCHANGED <<migration, objects, product_comments, modal, session, identities, profiles, products, orders, messages,
                 cart_items, wishlist, product_likes, sellers, now, clientVars,
                 deliveries, tw>>

\* PATCH /rest/v1/<tbl>?id=eq.<id> as `caller`, setting the ownership column,
\* the second user and updated_at.
RawUpdate(caller, tbl, id, owner, party, supplied) ==
  /\ WellFormedWrite(tbl, party, supplied)
  /\ LET hit == {r \in stamped : r.tbl = tbl /\ r.id = id /\ UpdatePolicy(tbl, caller, r)}
         new == {HandleUpdatedAt(tbl, [r EXCEPT !.owner = owner, !.party = party,
                                                !.updated_at = supplied]) : r \in hit}
         err == IF \E r \in new : ~UpdatePolicy(tbl, caller, r) THEN RlsViolation
                ELSE NoError
     IN /\ resp' = Response("update", caller, owner, err)
        /\ stamped' = IF err = NoError THEN (stamped \ hit) \cup new ELSE stamped
  /\ UNCHANGED <<migration, objects, product_comments, modal, session, identities, profiles, products, orders, messages,
                 cart_items, wishlist, product_likes, sellers, now, clientVars,
                 deliveries, tw>>

\* Time passes on the server.
Tick ==
  /\ now < MaxTime
  /\ now' = now + 1
  /\ UNCHANGED <<migration, objects, product_comments, modal, session, identities, profiles, products, orders, messages,
                 cart_items, wishlist, product_likes, sellers, stamped,
                 clientVars, resp, deliveries, tw>>

Writers == {"u1", "u2"}                  \* the identities rows are written for
Callers == Writers \cup {NoUser}          \* and the callers, one of them anonymous
Parties == Writers \cup {NoUser}

InitRaw ==
  /\ Seeded
  /\ migration \in {"teal_sea", "young_dream"}
  /\ products = {} /\ orders = {} /\ messages = {}
  /\ cart_items = {} /\ wishlist = {} /\ product_likes = {}
  /\ clientProducts = EmptyClient /\ clientOrders = EmptyClient
  /\ clientMessages = EmptyClient /\ cartItems = EmptyClient
  /\ userLikes = EmptyClient

\* Writes to every table, payloads without updated_at.
NextOwnership ==
  \/ \E c \in Callers, t \in OwnedTables, o \in Writers, p \in Parties :
        RawInsert(c, t, o, p, Omitted)
  \/ \E c \in Callers, t \in OwnedTables, id \in 1..MaxStamped, o \in Writers,
        p \in Parties : RawUpdate(c, t, id, o, p, Omitted)

SpecOwnership == InitRaw /\ [][NextOwnership]_vars

\* The writes whose stored ownership column is the caller's by the policies:
\* every insert, and the updates of the tables whose update policy names that
\* column.
OwnershipChecked(op, tbl) ==
  op = "insert" \/ (op = "update" /\ tbl \notin PartyTables)

\* C13: every successful insert or update stores a row whose ownership column
\* equals the authenticated caller, and a write naming another identity in
\* that column is rejected and changes nothing.
C13_WritesCarryCaller ==
  /\ [][\A r \in stamped' \ stamped :
          OwnershipChecked(resp'.op, r.tbl)
            => (resp'.caller # NoUser /\ r.owner = resp'.caller)]_vars
  /\ [][(resp'.op = "insert" /\ resp'.target # resp'.caller)
          => (resp'.error = RlsViolation /\ stamped' = stamped)]_vars
  /\ [][(resp'.op = "update" /\ resp'.target # resp'.caller)
          => (\/ stamped' = stamped
              \/ \A r \in stamped' \ stamped : r.tbl \in PartyTables)]_vars

\* C13 witness: an update that would hand the caller's own row to another
\* identity was refused by the policy and the row is still the caller's.
C13_Witness ==
  /\ resp.op = "update" /\ resp.error = RlsViolation
  /\ \E r \in stamped : r.tbl \notin PartyTables /\ r.owner = resp.caller

\* Writes of the users to the tables with updated_at, each to rows of their
\* own, with and without a time in the payload, while the clock runs.
NextTimestamps ==
  \/ \E c \in Writers, t \in StampedTables, s \in {Omitted, ClientTime} :
        RawInsert(c, t, c, IF t \in PartyTables THEN c ELSE NoUser, s)
  \/ \E c \in Writers, t \in StampedTables, id \in 1..MaxStamped,
        s \in {Omitted, ClientTime} :
        RawUpdate(c, t, id, c, IF t \in PartyTables THEN c ELSE NoUser, s)
  \/ Tick

SpecTimestamps == InitRaw /\ [][NextTimestamps]_vars

\* C17: every insert or update of a profiles, sellers, products or orders row
\* stores the server's current time in updated_at, whatever the payload said.
C17_UpdatedAtIsServerTime ==
  [][\A r \in stamped' \ stamped :
        r.tbl \in StampedTables => r.updated_at = now]_vars

\* ---------------------------------------------- orders: updates of any column

\* UPDATE orders SET buyer_id, quantity, total_price WHERE id = id by `caller`:
\* a request to the REST API naming columns other than status.
UpdateOrder(caller, id, buyer_id, quantity, total_price) ==
  LET hit == OrdersUpdatable(caller, id)
      new == {[o EXCEPT !.buyer_id = buyer_id, !.quantity = quantity,
                        !.total_price = total_price] : o \in hit}
      err == IF hit = {} THEN NoError
             ELSE IF \E o \in new : ~OrdersUpdatePolicy(caller, o) THEN RlsViolation
             ELSE IF \E o \in new : OrdersConstraintError(o) # NoError THEN CheckViolation
             ELSE NoError
  IN /\ resp' = Response("updateOrder", caller, id, err)
     /\ orders' = IF err = NoError THEN (orders \ hit) \cup new ELSE orders
     /\ UNCHANGED <<migration, objects, product_comments, modal, session, identities, profiles, products, messages, cart_items,
                    wishlist, product_likes, sellers, stamped, now, clientVars,
                    deliveries, tw>>

\* The totals a request may name: the unit price and nothing.
TotalInputs == {SeedProduct.price, 0}

\* Orders of the seeded product, and updates of them by every user.
NextOrderWrites ==
  \/ \E c \in Users, q \in 0..1 : InsertOrder(c, c, SeedProduct.seller_id, q)
  \/ \E c \in Users, id \in 1..MaxRows, st \in {"confirmed", "cancelled"} :
        UpdateOrderStatus(c, id, st)
  \/ \E c \in Users, id \in 1..MaxRows, b \in Users, q \in 1..MaxQty,
        t \in TotalInputs : UpdateOrder(c, id, b, q, t)

SpecOrderWrites == InitOrders /\ [][NextOrderWrites]_vars

\* C14: the buyer, seller, product, quantity, unit price and total price of a
\* stored order are the same after every step; only its status changes.
C14_OrderFieldsFixed ==
  [][\A o \in orders : \A n \in orders' :
        n.id = o.id => [n EXCEPT !.status = o.status] = o]_vars

\* -------------------------------------------- messages: updates of any column

\* UPDATE messages SET from_user_id, to_user_id, message WHERE id = id by
\* `caller`: a request to the REST API naming columns other than is_read.  The
\* update policy has no WITH CHECK, so its USING is applied to the new row.
UpdateMessage(caller, id, from_user_id, to_user_id, message) ==
  LET hit == MessagesUpdatable(caller, id)
      new == {[m EXCEPT !.from_user_id = from_user_id, !.to_user_id = to_user_id,
                        !.message = message] : m \in hit}
      err == IF \E m \in new : ~MessagesUpdatePolicy(caller, m) THEN RlsViolation
             ELSE NoError
  IN /\ resp' = Response("updateMessage", caller, id, err)
     /\ messages' = IF err = NoError THEN (messages \ hit) \cup new ELSE messages
     /\ UNCHANGED <<migration, objects, product_comments, modal, session, identities, profiles, products, orders, cart_items,
                    wishlist, product_likes, sellers, stamped, now, clientVars,
                    deliveries, tw>>

Texts == {"oi", "tchau"}     \* the texts a request may name

\* Messages from one user to another, read marks, and updates by both.
NextMessageWrites ==
  \/ SendMessage("u1", "u2")
  \/ \E u \in Writers, id \in 1..MaxRows : MarkMessageAsRead(u, id)
  \/ \E c \in Writers, id \in 1..MaxRows, f \in Writers, t \in Writers, x \in Texts :
        UpdateMessage(c, id, f, t, x)

SpecMessageWrites == InitMessages /\ [][NextMessageWrites]_vars

\* C15: the sender, recipient and text of a stored message are the same after
\* every step, whoever issues an update; only its read flag changes.
C15_MessageFieldsFixed ==
  [][\A m \in messages : \A n \in messages' :
        n.id = m.id => [n EXCEPT !.is_read = m.is_read] = m]_vars

\* ------------------------------------------------ products: reads by anyone

\* select('*') from products by `caller`, no filter: the rows the SELECT
\* policies expose, as the caller's list of products.
SelectProducts(caller) ==
  /\ resp' = Response("selectProducts", caller, Null, NoError)
  /\ clientProducts' =
       [clientProducts EXCEPT ![caller] =
          {ClientProduct(p) : p \in {q \in products : ProductsSelectPolicy(caller, q)}}]
  /\ UNCHANGED <<serverVars, modal, session, profile, clientOrders, clientMessages, cartItems,
                 userLikes, pending, sellerData, deliveries, tw>>

\* Sellers publish, hide and show products; every user reads the table.
NextProductReads ==
  \/ \E u \in Sellers, a \in BOOLEAN : AddProduct(u, 125, 1, a)
  \/ \E u \in Sellers, id \in ProductIds, a \in BOOLEAN :
        UpdateProduct(u, id, [keys |-> {"is_active"}, price |-> 0, stock |-> 0,
                              is_active |-> a])
  \/ \E u \in Users : SelectProducts(u)

SpecProductReads == InitProducts /\ [][NextProductReads]_vars

\* The ids in a caller's list of products.
ListedIds(u) == {r.id : r \in clientProducts[u]}

\* C16: a read of products returns an inactive product to its owning seller
\* only, and returns every active product to every authenticated caller.
C16_InactiveHiddenActiveShown ==
  [][resp'.op = "selectProducts"
       => LET listed == {r.id : r \in clientProducts'[resp'.caller]}
          IN \A p \in products' :
                /\ (p.is_active => p.id \in listed)
                /\ (~p.is_active => (p.id \in listed <=> p.seller_id = resp'.caller))]_vars

\* C16 witness: a caller's read came back with another seller's active product
\* and without that seller's inactive one.
C16_Witness ==
  /\ resp.op = "selectProducts"
  /\ \E p \in products :
        p.seller_id # resp.caller /\ ~p.is_active /\ p.id \notin ListedIds(resp.caller)
  /\ \E p \in products :
        p.seller_id # resp.caller /\ p.is_active /\ p.id \in ListedIds(resp.caller)

\* ------------------------------------------------- avatars (object store)

DuplicateObject == "Duplicate"     \* the storage API's answer to a taken name

\* An object name as its path segments: "u1/a.png" is <<"u1", "a.png">>.
FileNames == {"a.png", "b.png"}

\* storage.foldername(name): the segments before the file name.
FolderName(name) == SubSeq(name, 1, Len(name) - 1)

\* (storage.foldername(name))[1]; NULL for a name without a folder.
FirstFolder(name) == IF Len(FolderName(name)) >= 1 THEN FolderName(name)[1] ELSE Null

\* POLICY "Users can upload avatar images": authenticated and
\* (storage.foldername(name))[1] = auth.uid()::text.
AvatarInsertPolicy(caller, name) ==
  caller # NoUser /\ FirstFolder(name) = caller

\* supabase.storage.from('avatars').upload(name, file).
UploadError(caller, name) ==
  IF ~AvatarInsertPolicy(caller, name) THEN RlsViolation
  ELSE IF \E o \in objects : o.name = name THEN DuplicateObject
  ELSE NoError

ObjectsAfterUpload(caller, name) ==
  IF UploadError(caller, name) = NoError
  THEN objects \cup {[name |-> name, owner |-> caller]}
  ELSE objects

\* `profiles/${user.id}-${Math.random()}.${fileExt}`: the name updateProfile
\* gives the file of user u (the random part is left out of the file name).
AvatarFilePath(u, file) == <<"profiles", file>>

\* updateProfile({ profile_image: <File> }): upload, throw on its error, then
\* write the public URL to the caller's profile row (a column the model's
\* profile rows do not carry).
UpdateProfileImage(u, file) ==
  /\ resp' = Response("updateProfile", u, AvatarFilePath(u, file),
                      UploadError(u, AvatarFilePath(u, file)))
  /\ objects' = ObjectsAfterUpload(u, AvatarFilePath(u, file))
  /\ UNCHANGED <<migration, identities, profiles, products, orders, messages,
                 cart_items, wishlist, product_likes, sellers, stamped, now,
                 product_comments, clientVars, modal, session, deliveries, tw>>

\* An upload to the bucket through the storage API under a name of the
\* caller's choice.
UploadObject(caller, name) ==
  /\ resp' = Response("upload", caller, name, UploadError(caller, name))
  /\ objects' = ObjectsAfterUpload(caller, name)
  /\ UNCHANGED <<migration, identities, profiles, products, orders, messages,
                 cart_items, wishlist, product_likes, sellers, stamped, now,
                 product_comments, clientVars, modal, session, deliveries, tw>>

\* The names requests use: in a user's folder, in the folder profiles, and in
\* no folder.
ObjectNames ==
  {<<d, f>> : d \in Users \cup {"profiles"}, f \in FileNames}
    \cup {<<f>> : f \in FileNames}

InitAvatars == InitRaw

NextAvatars ==
  \/ \E u \in Users, f \in FileNames : UpdateProfileImage(u, f)
  \/ \E c \in Users \cup {NoUser}, n \in ObjectNames : UploadObject(c, n)

SpecAvatars == InitAvatars /\ [][NextAvatars]_vars

\* C21: the name of every upload updateProfile issues begins with the caller's
\* identity, and every object stored in the bucket lies in the folder of the
\* caller who uploaded it.
C21_UploadKeyedByCaller ==
  /\ (resp.op = "updateProfile" => resp.target[1] = resp.caller)
  /\ \A o \in objects : o.name[1] = o.owner

\* ------------------------------------------------------ product_comments

CommentRow(id, user_id, product_id, comment) ==
  [id |-> id, user_id |-> user_id, product_id |-> product_id, comment |-> comment]

\* POLICY "Users can create comments" WITH CHECK (user_id = auth.uid()).
CommentsInsertPolicy(caller, row) == caller # NoUser /\ row.user_id = caller

\* POLICY "Users can update own comments" USING (user_id = auth.uid()), with
\* the same WITH CHECK where one is written.
CommentsUpdatePolicy(caller, row) == caller # NoUser /\ row.user_id = caller

\* POLICY "Anyone can read comments" / "Users can read all comments":
\* TO authenticated USING (true).
CommentsSelectPolicy(caller, row) == caller # NoUser

\* product_comments has no DELETE policy: with row level security enabled a
\* delete reaches no row.
CommentsDeletePolicy(caller, row) == FALSE

\* addProductComment: insert { user_id: user.id, product_id, comment }.
\* product_id is free text, no foreign key.
AddProductComment(u, product_id, comment) ==
  /\ LET row == CommentRow(0, u, product_id, comment)
         err == IF CommentsInsertPolicy(u, row) THEN NoError ELSE RlsViolation
     IN /\ err = NoError => FreeIds(product_comments) # {}
        /\ resp' = Response("addProductComment", u, product_id, err)
        /\ product_comments' =
             IF err = NoError
             THEN product_comments \cup {[row EXCEPT !.id = NewId(product_comments)]}
             ELSE product_comments
  /\ UNCHANGED <<migration, identities, profiles, products, orders, messages,
                 cart_items, wishlist, product_likes, sellers, stamped, now,
                 objects, clientVars, modal, session, deliveries, tw>>

\* UPDATE product_comments SET comment = comment WHERE id = id by `caller`.
UpdateComment(caller, id, comment) ==
  LET hit == {c \in product_comments :
                c.id = id /\ CommentsSelectPolicy(caller, c)
                          /\ CommentsUpdatePolicy(caller, c)}
      new == {[c EXCEPT !.comment = comment] : c \in hit}
  IN /\ resp' = Response("updateComment", caller, id, NoError)
     /\ product_comments' = (product_comments \ hit) \cup new
     /\ UNCHANGED <<migration, identities, profiles, products, orders, messages,
                    cart_items, wishlist, product_likes, sellers, stamped, now,
                    objects, clientVars, modal, session, deliveries, tw>>

\* DELETE FROM product_comments WHERE id = id by `caller`.
DeleteComment(caller, id) ==
  LET hit == {c \in product_comments :
                c.id = id /\ CommentsSelectPolicy(caller, c)
                          /\ CommentsDeletePolicy(caller, c)}
  IN /\ resp' = Response("deleteComment", caller, id, NoError)
     /\ product_comments' = product_comments \ hit
     /\ UNCHANGED <<migration, identities, profiles, products, orders, messages,
                    cart_items, wishlist, product_likes, sellers, stamped, now,
                    objects, clientVars, modal, session, deliveries, tw>>

CommentTexts == {"bom", "ruim"}     \* the texts a request may name

NextComments ==
  \/ \E u \in Writers, p \in ProductIds, x \in CommentTexts : AddProductComment(u, p, x)
  \/ \E c \in Users, id \in 1..MaxRows, x \in CommentTexts : UpdateComment(c, id, x)
  \/ \E c \in Users, id \in 1..MaxRows : DeleteComment(c, id)

SpecComments == InitRaw /\ [][NextComments]_vars

\* C22: a stored comment is never modified or deleted: every comment row is
\* still in the table, as it was, after every step.
C22_CommentsAppendOnly ==
  [][\A c \in product_comments : c \in product_comments']_vars

\* ----------------------------- wishlist, product_likes, product_comments: reads

EntryTables == {"wishlist", "product_likes", "product_comments"}

EntryRows(tbl) ==
  CASE tbl = "wishlist" -> wishlist
    [] tbl = "product_likes" -> product_likes
    [] tbl = "product_comments" -> product_comments

\* The SELECT policies: wishlist has "Users can manage own wishlist" FOR ALL
\* alone; product_likes has it next to "Anyone can read likes" USING (true);
\* product_comments has "Anyone can read comments".
EntrySelectPolicy(tbl, caller, row) ==
  CASE tbl = "wishlist" -> OwnRowPolicy(caller, row)
    [] tbl = "product_likes" -> caller # NoUser
    [] tbl = "product_comments" -> CommentsSelectPolicy(caller, row)

\* select('*') from one of the tables by `caller`, no filter; the response
\* carries the rows returned.
SelectEntries(caller, tbl) ==
  /\ resp' = Response("select", caller,
                      [tbl |-> tbl,
                       rows |-> {r \in EntryRows(tbl) : EntrySelectPolicy(tbl, caller, r)}],
                      NoError)
  /\ UNCHANGED <<serverVars, clientVars, modal, session, deliveries, tw>>

InitEntries ==
  /\ Seeded
  /\ migration \in {"teal_sea", "young_dream"}
  /\ products = {SeedProduct} /\ orders = {} /\ messages = {}
  /\ cart_items = {} /\ wishlist = {} /\ product_likes = {}
  /\ clientProducts = EmptyClient /\ clientOrders = EmptyClient
  /\ clientMessages = EmptyClient /\ cartItems = EmptyClient
  /\ userLikes = EmptyClient

\* Two users write entries, every user reads the tables.
NextEntries ==
  \/ \E c \in Writers, u \in Writers : InsertWishlist(c, u, SeedProduct.id)
  \/ \E c \in Writers, u \in Writers : DeleteWishlist(c, u, SeedProduct.id)
  \/ \E u \in Shoppers : ToggleProductLikeBegin(u, SeedProduct.id)
  \/ \E c \in pending : ToggleProductLikeEnd(c)
  \/ \E u \in Shoppers : AddProductComment(u, SeedProduct.id, "bom")
  \/ \E c \in Users, t \in EntryTables : SelectEntries(c, t)

SpecEntries == InitEntries /\ [][NextEntries]_vars

\* C23: every authenticated caller's read of wishlist, product_likes and
\* product_comments returns every row of the table, and every row a step
\* adds, changes or removes belongs to the caller of that step.
C23_AllReadOwnerWrites ==
  /\ [](resp.op = "select" => resp.target.rows = EntryRows(resp.target.tbl))
  /\ [][\A t \in EntryTables :
          \A r \in (EntryRows(t) \ EntryRows(t)') \cup (EntryRows(t)' \ EntryRows(t)) :
             r.user_id = resp'.caller]_vars

\* -------------------------------------------- products and the seller's role

\* The stored role of a profile id ("none" where no profile has that id).
RoleOf(id) ==
  IF ProfileOf(profiles, id) = {} THEN "none"
  ELSE (CHOOSE r \in ProfileOf(profiles, id) : TRUE).role

\* Role switches of two accounts, and products they add and delete.
NextSellerProducts ==
  \/ \E u \in RoleUsers, f \in RoleFaults : BecomeSeller(u, "Loja", f)
  \/ \E u \in RoleUsers, f \in RoleFaults : BackToBuyer(u, f)
  \/ \E u \in RoleUsers, a \in BOOLEAN : AddProduct(u, 125, 1, a)
  \/ \E u \in RoleUsers, id \in ProductIds : DeleteProduct(u, id)

SpecSellerProducts == InitRoles /\ [][NextSellerProducts]_vars

\* C24: the seller_id of every product names a profile whose role is seller.
C24_ProductOwnerIsSeller ==
  \A p \in products : RoleOf(p.seller_id) = "seller"

\* ------------------------------------------- rows that reference a product

\* The product ids the rows of the five referencing tables carry.
ReferencedProducts ==
  {r.product_id : r \in orders \cup cart_items \cup wishlist \cup product_likes
                          \cup product_comments}

\* A shopper's order, wishlist entry, like and comment for the seeded product,
\* and its seller's delete of it.
NextCascade ==
  \/ \E u \in Shoppers : InsertOrder(u, u, SeedProduct.seller_id, 1)
  \/ \E u \in Shoppers : InsertWishlist(u, u, SeedProduct.id)
  \/ \E u \in Shoppers : ToggleProductLikeBegin(u, SeedProduct.id)
  \/ \E c \in pending : ToggleProductLikeEnd(c)
  \/ \E u \in Shoppers : AddProductComment(u, SeedProduct.id, "bom")
  \/ \E u \in Sellers : DeleteProduct(u, SeedProduct.id)

SpecCascade == InitEntries /\ [][NextCascade]_vars

\* C25: once a product is deleted, no order, cart item, wishlist entry, like
\* or comment carries its id.
C25_DeleteCascades ==
  [][\A p \in products :
        (\A q \in products' : q.id # p.id) => p.id \notin ReferencedProducts']_vars

\* ---------------------------------------- mutations and the local collections

\* The operations that write a table and merge into a local collection.
Mutations ==
  {"addProduct", "updateProduct", "deleteProduct", "addToCart", "removeFromCart",
   "markMessageAsRead", "toggleProductLike"}

\* The tables those operations write, and the collections they merge into.
MutatedTables == <<products, cart_items, messages, product_likes>>
LocalCollections == <<clientProducts, cartItems, clientMessages, userLikes>>

\* A seller's products, a message and its read marks, a shopper's cart and
\* likes.
NextMutations ==
  \/ \E a \in BOOLEAN : AddProduct("u1", 125, 1, a)
  \/ \E id \in ProductIds, a \in BOOLEAN :
        UpdateProduct("u1", id, [keys |-> {"is_active"}, price |-> 0, stock |-> 0,
                                 is_active |-> a])
  \/ \E u \in Sellers, id \in ProductIds : DeleteProduct(u, id)
  \/ SendMessage("u1", "u2")
  \/ \E u \in Writers, id \in 1..MaxRows : MarkMessageAsRead(u, id)
  \/ \E u \in Shoppers, p \in ShopProducts : ToggleProductLikeBegin(u, p)
  \/ \E c \in pending : ToggleProductLikeEnd(c)

SpecMutations == InitProducts /\ [][NextMutations]_vars

\* C26: when a mutation resolves, a local collection changed exactly when a
\* table on the server did.
C26_LocalFollowsServer ==
  [][resp'.op \in Mutations
       => (LocalCollections' # LocalCollections <=> MutatedTables' # MutatedTables)]_vars

\* ------------------------------------------------------------ CommentsModal

\* getProductComments: the comments of a product, as a signed-in user reads
\* them.
CommentsOf(product_id) == {c \in product_comments : c.product_id = product_id}

\* The modal is shown for `product_id` (opened, or its product prop changed):
\* the effect on [isOpen, product.id] runs loadComments, which starts a fetch.
ShowProduct(product_id) ==
  /\ modal.product # product_id
  /\ modal' = [modal EXCEPT !.product = product_id,
                            !.fetches = @ \cup {product_id}]
  /\ UNCHANGED <<serverVars, clientVars, session, resp, deliveries, tw>>

\* onClose: isOpen becomes false; the component keeps its state.
CloseModal ==
  /\ modal.product # Null
  /\ modal' = [modal EXCEPT !.product = Null]
  /\ UNCHANGED <<serverVars, clientVars, session, resp, deliveries, tw>>

\* loadComments after its await: setComments(productComments), whatever the
\* modal shows by then.
LoadCommentsEnd(product_id) ==
  /\ product_id \in modal.fetches
  /\ modal' = [modal EXCEPT !.comments = CommentsOf(product_id),
                            !.fetches = @ \ {product_id}]
  /\ UNCHANGED <<serverVars, clientVars, session, resp, deliveries, tw>>

NextModal ==
  \/ \E u \in Shoppers, p \in ProductIds : AddProductComment(u, p, "bom")
  \/ \E p \in ProductIds : ShowProduct(p)
  \/ CloseModal
  \/ \E p \in ProductIds : LoadCommentsEnd(p)

SpecModal == InitEntries /\ [][NextModal]_vars

\* C27: once no comments fetch is in flight, every comment the open modal
\* displays belongs to the product it shows.
C27_ListBelongsToShownProduct ==
  (modal.product # Null /\ modal.fetches = {})
     => \A c \in modal.comments : c.product_id = modal.product

\* ------------------------------------------------- checkout: orders per item

\* The stored price of a product id (0 where no such product is stored).
StoredPrice(product_id) ==
  IF ProductById(products, product_id) = {} THEN 0
  ELSE (CHOOSE p \in ProductById(products, product_id) : TRUE).price

\* C28: a createOrder(items) that returns without error has created exactly
\* one order for every requested item, with the item's quantity and the
\* product's price, and has removed from the cart only items it created an
\* order for.
C28_OneOrderPerItem ==
  [][\A u \in Buyers, items \in ItemLists :
        (/\ resp'.op = "createOrder" /\ resp'.caller = u /\ resp'.error = NoError
         /\ CreateOrder(u, items))
          => /\ \A i \in DOMAIN items :
                  Cardinality({o \in orders' \ orders :
                                 /\ o.product_id = items[i].productId
                                 /\ o.quantity = items[i].quantity
                                 /\ o.unit_price = StoredPrice(o.product_id)}) = 1
             /\ \A r \in cart_items \ cart_items' :
                  \E o \in orders' \ orders : o.product_id = r.product_id]_vars

\* ---------------------------------------------------------------------------
\* The session's view state while fetchProfile is outstanding
\* ---------------------------------------------------------------------------

\* One outstanding fetchProfile(userId), at the await it is parked on: the
\* select of the profile or, after setProfile, the select of the orders.
ProfileFetch(u, step) == [user |-> u, step |-> step]

\* onAuthStateChange callback: setUser(session?.user ?? null); with a user it
\* starts fetchProfile(session.user.id) and returns, without one it clears
\* the view state. Nothing cancels a fetchProfile started earlier.
AuthStateChange(u) ==
  /\ u # NoUser => u \in DOMAIN identities
  /\ session' = IF u # NoUser
                  THEN [session EXCEPT !.user = u,
                                       !.fetches = @ \cup {ProfileFetch(u, "profile")}]
                  ELSE [session EXCEPT !.user = NoUser, !.profile = Null,
                                       !.orders = Null]
  /\ UNCHANGED <<serverVars, clientVars, modal, resp, deliveries, tw>>

\* fetchProfile(userId) resuming after the select of the profile:
\* setProfile(profileData), whoever the current user is by now.
FetchProfileGotProfile(u) ==
  /\ ProfileFetch(u, "profile") \in session.fetches
  /\ ProfileRowsOf(profiles, u) # {}
  /\ session' = [session EXCEPT !.profile = u,
                   !.fetches = (@ \ {ProfileFetch(u, "profile")}) \cup {ProfileFetch(u, "orders")}]
  /\ UNCHANGED <<serverVars, clientVars, modal, resp, deliveries, tw>>

\* fetchProfile(userId) resuming after the select of the orders:
\* setOrders(ordersData || []), the orders of userId.
FetchProfileGotOrders(u) ==
  /\ ProfileFetch(u, "orders") \in session.fetches
  /\ session' = [session EXCEPT !.orders = u,
                                !.fetches = @ \ {ProfileFetch(u, "orders")}]
  /\ UNCHANGED <<serverVars, clientVars, modal, resp, deliveries, tw>>

NextSession ==
  \/ \E u \in Users \cup {NoUser} : AuthStateChange(u)
  \/ \E u \in Users : FetchProfileGotProfile(u)
  \/ \E u \in Users : FetchProfileGotOrders(u)

SpecSession == InitEntries /\ [][NextSession]_vars

\* C29: once no request is in flight the view state belongs to the current
\* session: signed out, the profile and the orders are empty; signed in, the
\* profile is the signed-in user's.
C29_ViewBelongsToSession ==
  session.fetches = {} =>
    /\ session.user = NoUser => (session.profile = Null /\ session.orders = Null)
    /\ session.user # NoUser => session.profile = session.user

\* ---------------------------------------------------------------------------
\* Interleaved addToCart calls
\* ---------------------------------------------------------------------------

\* The quantity cart_items holds for the pair, 0 without a row.
StoredQuantity(tbl, user_id, product_id) ==
  IF SamePair(tbl, user_id, product_id) = {} THEN 0
  ELSE (CHOOSE r \in SamePair(tbl, user_id, product_id) : TRUE).quantity

\* addToCart calls alone, begun and finished in any order.
NextCartAdds ==
  \/ \E u \in Users, p \in ShopProducts, q \in 1..MaxQty : AddToCartBegin(u, p, q)
  \/ \E c \in pending : AddToCartEnd(c)

SpecCartAdds == InitPairs /\ [][NextCartAdds]_vars

\* C30: no addToCart is lost or overwritten by another: each call that
\* returns without error leaves the stored quantity of its cart item larger
\* than it found it, so that the quantity sums the adds.
C30_NoAddLost ==
  [][\A c \in pending \ pending' :
        (c.op = "addToCart" /\ resp'.error = NoError)
          => StoredQuantity(cart_items', c.user, c.product)
               > StoredQuantity(cart_items, c.user, c.product)]_vars

=============================================================================
